---- MODULE Spec2Model ----
(***************************************************************************)
(* Model of the scanline write pipeline of ImfOutputFile.cpp:              *)
(* OutputFile::writePixels / copyPixels / setFrameBuffer, LineBufferTask   *)
(* and writePixelData.  The calling thread is one process (pc); every      *)
(* LineBufferTask is executed and destroyed by the thread pool in its own  *)
(* steps, so that tasks complete in any order.                             *)
(***************************************************************************)
EXTENDS Integers, Sequences, FiniteSets, TLC

(* ---- bounds of the model ---- *)
MaxHeight   == 3      \* data windows of 1..MaxHeight scanlines
MaxLines    == 2      \* linesInBuffer in 1..MaxLines
MaxThreads  == 1      \* numThreads in 0..MaxThreads
MaxCalls    == 3      \* calls of writePixels / copyPixels per file
MaxFailures == 2      \* errors raised inside LineBufferTask::execute
Width       == 1      \* pixels of one scanline, dataWindow.max.x + 1
HeaderBytes == 5      \* bytes of magic number, version and header
DataMinY    == 1      \* dataWindow.min.y
FileMaxHeight == 2    \* data windows of the files that are patched and closed
StreamStart   == 3    \* position of a caller's stream handed to the constructor
PreviewOffset == 3    \* bytes of the file before the preview attribute's value
PreviewBytes  == 1    \* bytes of the preview attribute's value
MaxPreview    == 2    \* preview images are 1 .. MaxPreview
MaxBreak      == 1    \* breakScanLine offsets and lengths are 0 .. MaxBreak
MaxSiblingRecords == 1  \* chunk records thread 2 writes for the sibling part
PixelMin       == -2  \* dataWindow.min of the files with subsampled channels
PixelHeight    == 2   \* scanlines of their data windows
PixelWidth     == 2   \* pixels of their scanlines

(* ---- program constants ---- *)
XdrIntSize    == 4
XdrOffsetSize == 8

VARIABLES
    lineOrder,         \* Data::lineOrder
    minY, maxY,        \* Data::minY, Data::maxY
    linesInBuffer,     \* Data::linesInBuffer
    multiPart,         \* Data::multiPart
    partNumber,        \* Data::partNumber
    previewPosition,   \* Data::previewPosition
    lineOffsetsPosition, \* Data::lineOffsetsPosition
    channels,          \* Data::header.channels (), in header order
    minX, maxX,        \* Data::minX, Data::maxX
    format,            \* Data::format
    numThreads,        \* the numThreads handed to Data::Data
    header,            \* Data::header: the preview image attribute's value
    lineBuffers,       \* Data::lineBuffers, slot -> LineBuffer
    frameBuffer,       \* Data::frameBuffer, channel name -> Slice
    slices,            \* Data::slices
    mutex,             \* Data::_streamData as std::mutex: 0 or the owning thread
    t2,                \* a second calling thread
    currentScanLine,   \* Data::currentScanLine
    missingScanLines,  \* Data::missingScanLines
    lineOffsets,       \* Data::lineOffsets
    os,                \* the stream: position, chunk records, other writes
    currentPosition,   \* OutputStreamMutex::currentPosition
    pc,                \* position of the calling thread
    wp,                \* locals of the running writePixels / copyPixels
    tasks,             \* live LineBufferTasks, by slot
    g                  \* history of the calls (observations only)

vars == << lineOrder, minY, maxY, linesInBuffer, multiPart, partNumber,
           previewPosition, lineOffsetsPosition, channels, minX, maxX, format,
           numThreads, header, lineBuffers, frameBuffer, slices, mutex, t2,
           currentScanLine, missingScanLines, lineOffsets, os,
           currentPosition, pc, wp, tasks, g >>

(* what no operation changes once the file is constructed *)
config == << lineOrder, minY, maxY, linesInBuffer, multiPart, partNumber,
             previewPosition, lineOffsetsPosition, channels, minX, maxX, format,
             numThreads >>

Min(a, b) == IF a < b THEN a ELSE b
Max(a, b) == IF a > b THEN a ELSE b

(* C++ integer division truncates towards zero *)
CDiv(a, b) == IF a >= 0 THEN a \div b ELSE -((-a) \div b)

RECURSIVE Pow2Mod(_, _)
Pow2Mod(k, m) ==
    IF k = 0 THEN 1 % m
    ELSE IF k % 2 = 0 THEN LET h == Pow2Mod(k \div 2, m) IN (h * h) % m
    ELSE (2 * Pow2Mod(k - 1, m)) % m

NumSlots   == Len(lineBuffers)
Slots      == 1 .. NumSlots
Height     == maxY - minY + 1
NumChunks  == CDiv(maxY - minY + linesInBuffer, linesInBuffer)
Step       == IF lineOrder = "INCREASING_Y" THEN 1 ELSE -1

(* number % lineBuffers.size(): the int is converted to size_t first *)
getLineBuffer(number) ==
    IF number >= 0 THEN (number % NumSlots) + 1
    ELSE ((Pow2Mod(64, NumSlots) + (number % NumSlots)) % NumSlots) + 1

(* faulty variant of NumLineBuffers: one slot for each thread *)
NumLineBuffers_OnePerThread(threads) == Max(1, threads)

(* line 192: lineBuffers.resize (max (1, 2 * numThreads)) *)
NumLineBuffers(threads) == Max(1, 2 * threads)

(* span of chunk `number` as LineBufferTask computes it *)
ChunkMinY(number) == minY + number * linesInBuffer
ChunkMaxY(number) == Min(ChunkMinY(number) + linesInBuffer - 1, maxY)

(* ---------------- channels and the bytes of a scanline ---------------- *)

(* pixelTypeSize (ImfMisc) *)
pixelTypeSize(type) == IF type = "HALF" THEN 2 ELSE 4

(* Imath: division that rounds down, and its remainder, for y > 0 *)
divp(x, y) == x \div y
modp(x, y) == x % y

(* numSamples (ImfMisc) for a window that starts at a multiple of s *)
numSamples(s, a, b) == divp(b, s) - divp(a, s) + 1

RECURSIVE SumBytesPerLine(_, _)
SumBytesPerLine(y, chans) ==
    IF chans = << >> THEN 0
    ELSE (IF modp(y, Head(chans).ySampling) = 0
          THEN pixelTypeSize(Head(chans).type)
               * numSamples(Head(chans).xSampling, minX, maxX)
          ELSE 0)
         + SumBytesPerLine(y, Tail(chans))

(* bytesPerLineTable (ImfMisc): bytes of scanline y over all channels *)
bytesPerLine(y) == SumBytesPerLine(y, channels)

(* offsetInLineBufferTable (ImfMisc): the scanlines of a group lie one
   behind the other, the first at offset 0 *)
RECURSIVE offsetInLineBuffer(_)
offsetInLineBuffer(y) ==
    IF (y - minY) % linesInBuffer = 0 THEN 0
    ELSE offsetInLineBuffer(y - 1) + bytesPerLine(y - 1)

RECURSIVE SumLines(_, _)
SumLines(y, last) == IF y > last THEN 0 ELSE bytesPerLine(y) + SumLines(y + 1, last)

(* bytes of all scanlines of chunk `number` *)
ChunkBytes(number) == SumLines(ChunkMinY(number), ChunkMaxY(number))

(* the one channel of the files of the pipeline and file specifications *)
HalfChannel == [ name |-> "A", type |-> "HALF", xSampling |-> 1, ySampling |-> 1 ]

(* bytes of a scanline of a file whose only channel is HalfChannel *)
LineBytes == pixelTypeSize(HalfChannel.type) * Width

lineBufferMinY(y) == CDiv(y - minY, linesInBuffer) * linesInBuffer + minY

NewLineBuffer ==
    [ minY |-> 0, maxY |-> 0, scanLineMin |-> 0, scanLineMax |-> 0,
      partiallyFull |-> FALSE, hasException |-> FALSE, exception |-> 0,
      sem |-> 1,
      endOfLineBufferData |-> 0, dataSize |-> 0, dataPtr |-> "buffer",
      gathered |-> {}, sound |-> TRUE, samples |-> << >>, converted |-> << >> ]

NoTask == [ state |-> "none", number |-> 0 ]

NoCall ==
    [ op |-> "none", numScanLines |-> 0, first |-> 0, nextWriteBuffer |-> 0,
      nextCompressBuffer |-> 0, stop |-> 0, step |-> 0, scanLineMin |-> 0,
      scanLineMax |-> 0, numTasks |-> 0, i |-> 0, exit |-> "none",
      source |-> << >> ]

(* ---------------- the stream ---------------- *)

tellp(s) == s.pos

seekp(s, pos) == [ s EXCEPT !.pos = pos ]

(* bytes written at the stream's position that are not a chunk record *)
write(s, what, value, bytes) ==
    [ s EXCEPT !.writes = Append(@, [ pos |-> s.pos, what |-> what,
                                     value |-> value, bytes |-> bytes ]),
               !.pos = @ + bytes ]

(* writeLineOffsets (os, lineOffsets) *)
writeLineOffsets(s, table) ==
    write(s, "lineOffsets", table, XdrOffsetSize * NumChunks)

(* ---------------- construction ---------------- *)

(* a second thread that is in no operation *)
NoThread ==
    [ pc |-> "idle", arg |-> << >>, fields |-> 0, position |-> 0, start |-> 0,
      records |-> 0 ]

(* headers with one HALF channel sampled at every pixel *)
OneChannelHeaders(heights) ==
    { [ minY |-> DataMinY, maxY |-> DataMinY + h - 1,
        minX |-> 0, maxX |-> Width - 1,
        channels |-> << HalfChannel >> ] : h \in heights }

(* OutputFile::initialize, after Data::Data (numThreads); the compressor
   decides linesInBuffer and format *)
initialize(headers, formats, threads) ==
    /\ lineOrder \in { "INCREASING_Y", "DECREASING_Y" }
    /\ \E h \in headers :
          /\ minY = h.minY /\ maxY = h.maxY
          /\ minX = h.minX /\ maxX = h.maxX
          /\ channels = h.channels
    /\ format \in formats
    /\ linesInBuffer \in 1 .. MaxLines
    /\ numThreads \in threads
    /\ lineBuffers = [ s \in 1 .. NumLineBuffers(numThreads) |-> NewLineBuffer ]
    /\ frameBuffer = << >>
    /\ slices = << >>
    /\ mutex = 0
    /\ t2 = NoThread
    /\ currentScanLine = IF lineOrder = "INCREASING_Y" THEN minY ELSE maxY
    /\ missingScanLines = maxY - minY + 1
    /\ lineOffsets = [ k \in 0 .. NumChunks - 1 |-> 0 ]
    /\ pc = "idle"
    /\ wp = NoCall
    /\ tasks = [ s \in DOMAIN lineBuffers |-> NoTask ]
    /\ g = [ calls |-> 0, failures |-> 0, sumN |-> 0, valid |-> TRUE,
             copied |-> FALSE, outcome |-> "none", callFailed |-> FALSE,
             ub |-> FALSE, snap |-> << >>, mismatch |-> "none",
             source |-> << >>, fault |-> "none", faulted |-> FALSE,
             patch |-> << >> ]

(* the three constructors: a new file, a caller's stream, a part of a
   multi-part file whose headers and tables are already in the stream *)
Constructors == { "fileName", "stream", "part" }

(* tellp() of the stream handed to the constructor *)
StartPosition(ctor) == IF ctor = "stream" THEN StreamStart ELSE 0

(* the stream after magic number, version, header and empty offset table *)
HeaderWritten(start, hasPreview) ==
    writeLineOffsets(
        write([ pos |-> start, chunks |-> << >>, writes |-> << >> ],
              "header", IF hasPreview THEN 0 ELSE -1, HeaderBytes),
        [ k \in 0 .. NumChunks - 1 |-> 0 ])

(* lines 618-639, 678-700 and 731-748 *)
Constructed(ctor, hasPreview) ==
    LET start == StartPosition(ctor) IN
    /\ multiPart = (ctor = "part")
    /\ partNumber = IF ctor = "part" THEN 0 ELSE -1
    /\ header = IF hasPreview THEN 0 ELSE -1
    /\ os = HeaderWritten(start, hasPreview)
    /\ previewPosition = IF hasPreview THEN start + PreviewOffset ELSE 0
    /\ lineOffsetsPosition = start + HeaderBytes
    /\ currentPosition = IF ctor = "part" THEN 0 ELSE start

Init ==
    /\ initialize(OneChannelHeaders(1 .. MaxHeight), { "XDR" }, 0 .. MaxThreads)
    /\ Constructed("fileName", FALSE)

(* ---------------- LineBufferTask ---------------- *)

(* faulty variant of NeedsInit: every task re-initializes its slot *)
NeedsInit_Always(lb) == TRUE

(* line 404: the slot is (re)initialized only when it is not mid-assembly *)
NeedsInit(lb) == ~ lb.partiallyFull

(* LineBufferTask::LineBufferTask, after _lineBuffer->wait() *)
TaskInit(lb, number, scanLineMin, scanLineMax) ==
    LET lb1 == IF NeedsInit(lb)
               THEN [ lb EXCEPT !.endOfLineBufferData = 0,
                                !.gathered = {},
                                !.samples = << >>,
                                !.converted = << >>,
                                !.minY = ChunkMinY(number),
                                !.maxY = ChunkMaxY(number),
                                !.partiallyFull = TRUE ]
               ELSE lb
    IN [ lb1 EXCEPT !.scanLineMin = Max(lb1.minY, scanLineMin),
                    !.scanLineMax = Min(lb1.maxY, scanLineMax),
                    !.sem = lb.sem - 1 ]

(* new LineBufferTask (...) followed by ThreadPool::addGlobalTask *)
NewTask(number, scanLineMin, scanLineMax) ==
    LET s == getLineBuffer(number) IN
    /\ lineBuffers[s].sem > 0
    /\ lineBuffers' = [ lineBuffers EXCEPT
                          ![s] = TaskInit(lineBuffers[s], number, scanLineMin,
                                          scanLineMax) ]
    /\ tasks' = [ tasks EXCEPT ![s] = [ state |-> "pending", number |-> number ] ]

(* the for loop of execute(): first scanline, end marker and direction *)
YStart(lb) == IF lineOrder = "INCREASING_Y" THEN lb.scanLineMin ELSE lb.scanLineMax
YStop(lb)  == IF lineOrder = "INCREASING_Y" THEN lb.scanLineMax + 1
                                            ELSE lb.scanLineMin - 1
LoopLen(lb) == (YStop(lb) - YStart(lb)) * Step

(* the first j scanlines the loop visits *)
Visited(lb, j) == { YStart(lb) + k * Step : k \in 0 .. j - 1 }

(* the loop never meets yStop, or indexes offsetInLineBuffer out of range *)
LoopUndefined(lb) ==
    \/ LoopLen(lb) < 0
    \/ \E y \in Visited(lb, LoopLen(lb)) : y < minY \/ y > maxY

(* faulty variant of HasSamples: every scanline holds samples *)
HasSamples_Always(y, slice) == TRUE

(* line 478: scanline y holds samples of the slice's channel *)
HasSamples(y, slice) == modp(y, slice.ySampling) = 0

(* lines 486-487 and 501: dMaxX - dMinX + 1 *)
SampleCount(slice) ==
    divp(maxX, slice.xSampling) - divp(minX, slice.xSampling) + 1

(* lines 469-530: what the slice loop stores for scanline y from slice i
   on, starting at writePtr: zeroes for a slice without frame buffer, else
   the samples copied from the frame buffer's memory *)
RECURSIVE StoreSlices(_, _, _)
StoreSlices(y, i, writePtr) ==
    IF i > Len(slices) THEN << >>
    ELSE IF ~ HasSamples(y, slices[i]) THEN StoreSlices(y, i + 1, writePtr)
    ELSE LET bytes == SampleCount(slices[i]) * pixelTypeSize(slices[i].type)
         IN << [ slice |-> i, at |-> writePtr,
                 count |-> SampleCount(slices[i]), bytes |-> bytes,
                 from  |-> IF slices[i].zero THEN "zeroes" ELSE slices[i].base ] >>
            \o StoreSlices(y, i + 1, writePtr + bytes)

(* lines 463-464: the slice loop starts at the scanline's offset *)
LineSamples(y) == StoreSlices(y, 1, offsetInLineBuffer(y))

RECURSIVE SumBytes(_)
SumBytes(stored) ==
    IF stored = << >> THEN 0 ELSE Head(stored).bytes + SumBytes(Tail(stored))

(* writePtr after the slice loop of scanline y *)
WritePtr(y) == offsetInLineBuffer(y) + SumBytes(LineSamples(y))

RECURSIVE EndAfter(_, _)
EndAfter(end, ys) ==
    IF ys = {} THEN end
    ELSE LET y == CHOOSE z \in ys : TRUE
         IN EndAfter(Max(end, WritePtr(y)), ys \ {y})

(* slot after the loop has gathered its first j scanlines *)
Gathered(lb, j) ==
    [ lb EXCEPT !.gathered = @ \cup Visited(lb, j),
                !.samples = [ y \in DOMAIN @ \cup Visited(lb, j) |->
                                IF y \in Visited(lb, j)
                                THEN LineSamples(y) ELSE @[y] ],
                !.endOfLineBufferData = EndAfter(@, Visited(lb, j)) ]

(* faulty variant of Caught: a later failure replaces the stored one *)
Caught_LastWins(lb, what) ==
    [ lb EXCEPT !.exception = what, !.hasException = TRUE ]

(* catch blocks of execute(): what() is stored unless the slot holds one *)
Caught(lb, what) ==
    IF ~ lb.hasException
    THEN [ lb EXCEPT !.exception = what, !.hasException = TRUE ]
    ELSE lb

(* sizes Compressor::compress may return for rawSize bytes *)
CompressSizes(rawSize) == IF rawSize > 0 THEN { rawSize - 1, rawSize } ELSE { 0 }

(* lines 331-357: the samples of scanline y converted in place, slice by
   slice, starting at writePtr *)
RECURSIVE ConvertSlices(_, _, _)
ConvertSlices(y, i, writePtr) ==
    IF i > Len(slices) THEN << >>
    ELSE IF ~ HasSamples(y, slices[i]) THEN ConvertSlices(y, i + 1, writePtr)
    ELSE LET bytes == SampleCount(slices[i]) * pixelTypeSize(slices[i].type)
         IN << [ slice |-> i, at |-> writePtr, bytes |-> bytes ] >>
            \o ConvertSlices(y, i + 1, writePtr + bytes)

(* lines 317-358: the scanlines lineBufferMinY .. lineBufferMaxY, one
   behind the other from writePtr on *)
RECURSIVE ConvertLines(_, _, _)
ConvertLines(y, lineBufferMaxYArg, writePtr) ==
    IF y > lineBufferMaxYArg THEN << >>
    ELSE LET line == ConvertSlices(y, 1, writePtr)
         IN line \o ConvertLines(y + 1, lineBufferMaxYArg,
                                 writePtr + SumBytes(line))

(* convertToXdr (ofd, lineBuffer, lineBufferMinY, lineBufferMaxY, inSize) *)
convertToXdr(lb) == ConvertLines(lb.minY, lb.maxY, 0)

(* faulty variant of Shrunk: output of the raw size counts as smaller *)
Shrunk_OrEqual(compSize, dataSize) == compSize <= dataSize

(* line 573 *)
Shrunk(compSize, dataSize) == compSize < dataSize

(* lines 552-596 for a compressor that returned compSize *)
Compressed(lb, compSize) ==
    LET lb1 == [ lb EXCEPT !.dataPtr = "buffer", !.dataSize = lb.endOfLineBufferData ]
    IN IF Shrunk(compSize, lb1.dataSize)
       THEN [ lb1 EXCEPT !.dataSize = compSize, !.dataPtr = "compressor",
                         !.partiallyFull = FALSE ]
       ELSE IF format = "NATIVE"
       THEN [ lb1 EXCEPT !.converted = convertToXdr(lb1),
                         !.partiallyFull = FALSE ]
       ELSE [ lb1 EXCEPT !.partiallyFull = FALSE ]

(* lines 552-555 done, then compress() or convertToXdr() throws *)
CompressFailed(lb, what) ==
    Caught([ lb EXCEPT !.dataPtr = "buffer", !.dataSize = lb.endOfLineBufferData ],
           what)

(* faulty variant of StillPartial: every task compresses its slot *)
StillPartial_Never(lb) == FALSE

(* line 550: the next scanline is still inside the slot's span *)
StillPartial(lb) == YStop(lb) >= lb.minY /\ YStop(lb) <= lb.maxY

CanFail == g.failures < MaxFailures

(* what() of the next error raised inside a task: every error is distinct *)
NextError == g.failures + 1

Failure == [ g EXCEPT !.failures = @ + 1, !.callFailed = TRUE ]

(* faulty variant of Posted: the semaphore is posted twice *)
Posted_Twice(lb) == [ lb EXCEPT !.sem = @ + 2 ]

(* LineBufferTask::~LineBufferTask: _lineBuffer->post() *)
Posted(lb) == [ lb EXCEPT !.sem = @ + 1 ]

(* A pool thread runs LineBufferTask::execute and deletes the task.  The   *)
(* task holds the slot's semaphore from its constructor to its destructor, *)
(* and execute() reads nothing the calling thread writes meanwhile.        *)
TaskExecute(s) ==
    /\ pc # "crashed"
    /\ tasks[s].state = "pending"
    /\ LET lb == lineBuffers[s] IN
       IF LoopUndefined(lb)
       THEN \* undefined behaviour: the process dies, or the stray stores
            \* land in the slot and the loop is left at yStop
            \/ /\ pc' = "crashed"
               /\ g' = [ g EXCEPT !.ub = TRUE ]
               /\ UNCHANGED << lineBuffers, tasks >>
            \/ /\ \E compSize \in CompressSizes(lb.endOfLineBufferData) :
                     lineBuffers' = [ lineBuffers EXCEPT ![s] = Posted(
                        IF StillPartial(lb) THEN [ lb EXCEPT !.sound = FALSE ]
                        ELSE Compressed([ lb EXCEPT !.sound = FALSE ], compSize)) ]
               /\ tasks' = [ tasks EXCEPT ![s] = NoTask ]
               /\ g' = [ g EXCEPT !.ub = TRUE ]
               /\ pc' = pc
       ELSE \/ \* copyFromFrameBuffer / fillChannelWithZeroes throws
               /\ CanFail
               /\ \E j \in 0 .. LoopLen(lb) - 1 :
                     lineBuffers' = [ lineBuffers EXCEPT ![s] =
                                        Posted(Caught(Gathered(lb, j), NextError)) ]
               /\ tasks' = [ tasks EXCEPT ![s] = NoTask ]
               /\ g' = Failure
               /\ pc' = pc
            \/ \* the loop completes
               /\ LET lb1 == Gathered(lb, LoopLen(lb)) IN
                  IF StillPartial(lb1)
                  THEN /\ lineBuffers' = [ lineBuffers EXCEPT ![s] = Posted(lb1) ]
                       /\ g' = g
                  ELSE \/ /\ \E compSize \in CompressSizes(lb1.endOfLineBufferData) :
                                lineBuffers' = [ lineBuffers EXCEPT ![s] =
                                                   Posted(Compressed(lb1, compSize)) ]
                          /\ g' = g
                       \/ /\ CanFail
                          /\ lineBuffers' = [ lineBuffers EXCEPT ![s] =
                                                Posted(CompressFailed(lb1, NextError)) ]
                          /\ g' = Failure
               /\ tasks' = [ tasks EXCEPT ![s] = NoTask ]
               /\ pc' = pc
    /\ UNCHANGED << config, mutex, t2, header, frameBuffer, slices,
                    currentScanLine, missingScanLines, lineOffsets, os,
                    currentPosition, wp >>

(* ---------------- writePixelData ---------------- *)

(* faulty variant of OffsetIndex: dataWindow.min.y is not subtracted *)
OffsetIndex_NoMinY(scanLine) == CDiv(scanLine, linesInBuffer)

(* lines 247-248: the offset-table entry of the chunk being written *)
OffsetIndex(scanLine) == CDiv(scanLine - minY, linesInBuffer)

(* lines 241-244: the cached position, or tellp() when it is 0 *)
WritePosition == IF currentPosition = 0 THEN tellp(os) ELSE currentPosition

(* lines 256-269: the fields of a chunk record in the order they are written *)
RecordLayout(pixelDataSize) ==
    (IF multiPart THEN << [ field |-> "partNumber", bytes |-> XdrIntSize ] >>
                  ELSE << >>)
    \o << [ field |-> "lineBufferMinY", bytes |-> XdrIntSize ],
          [ field |-> "pixelDataSize",  bytes |-> XdrIntSize ],
          [ field |-> "pixelData",      bytes |-> pixelDataSize ] >>

RECURSIVE LayoutBytes(_)
LayoutBytes(layout) ==
    IF layout = << >> THEN 0 ELSE Head(layout).bytes + LayoutBytes(Tail(layout))

ChunkRecord(lineBufferMinYArg, pixelDataSize, payload) ==
    [ pos    |-> tellp(os),
      offset |-> WritePosition,
      index  |-> OffsetIndex(currentScanLine),
      part   |-> partNumber,
      minY   |-> lineBufferMinYArg,
      size   |-> pixelDataSize,
      layout |-> RecordLayout(pixelDataSize),
      payload |-> payload ]

(* faulty variant of NextPosition: the cached position is not advanced *)
NextPosition_Stuck(position, pixelDataSize) == position

(* faulty variant of NextPosition: the part index is not counted *)
NextPosition_NoPart(position, pixelDataSize) ==
    position + XdrIntSize + XdrIntSize + pixelDataSize

(* lines 271-274: the cached position after the record *)
NextPosition(position, pixelDataSize) ==
    position + XdrIntSize + XdrIntSize + pixelDataSize
    + (IF multiPart THEN XdrIntSize ELSE 0)

(* writePixelData (filedata, partdata, lineBufferMinY, pixelData, size) *)
writePixelData(lineBufferMinYArg, pixelDataSize, payload) ==
    /\ lineOffsets' = [ lineOffsets EXCEPT
                          ![OffsetIndex(currentScanLine)] = WritePosition ]
    /\ os' = [ os EXCEPT
                 !.pos = @ + LayoutBytes(RecordLayout(pixelDataSize)),
                 !.chunks = Append(@, ChunkRecord(lineBufferMinYArg,
                                                  pixelDataSize, payload)) ]
    /\ currentPosition' = NextPosition(WritePosition, pixelDataSize)

(* what the slot hands to the stream, with the state it was assembled in *)
SlotPayload(lb, number) ==
    [ from     |-> lb.dataPtr,
      lines    |-> lb.gathered,
      spanMin  |-> lb.minY,
      spanMax  |-> lb.maxY,
      number   |-> number,
      failed   |-> lb.hasException,
      sound    |-> lb.sound,
      samples  |-> lb.samples,
      converted |-> lb.converted ]

(* ---------------- OutputFile::setFrameBuffer ---------------- *)

(* frame buffer slices hold a pixel type, sampling rates and the memory
   they read from (base and strides) *)
Slice(type, xSampling, ySampling, base) ==
    [ type |-> type, xSampling |-> xSampling, ySampling |-> ySampling,
      base |-> base ]

ChannelNames == { channels[i].name : i \in 1 .. Len(channels) }

(* the frame buffer that binds every channel of the header as declared *)
CompleteFrameBuffer ==
    [ n \in ChannelNames |->
        LET c == channels[CHOOSE i \in 1 .. Len(channels) : channels[i].name = n]
        IN Slice(c.type, c.xSampling, c.ySampling, n) ]

(* faulty variant of Incompatible: the sampling rates are not compared *)
Incompatible_TypeOnly(channel, slice) == channel.type # slice.type

(* lines 895 and 908-909 *)
Incompatible(channel, slice) ==
    \/ channel.type # slice.type
    \/ channel.xSampling # slice.xSampling
    \/ channel.ySampling # slice.ySampling

(* lines 888-923: the checks of the new frame buffer against the header *)
FrameBufferError(fb) ==
    IF \E i \in 1 .. Len(channels) :
          /\ channels[i].name \in DOMAIN fb
          /\ Incompatible(channels[i], fb[channels[i].name])
    THEN "ArgExc" ELSE "none"

(* lines 929-967: one OutSliceInfo per channel of the header *)
SliceTable(fb) ==
    [ i \in 1 .. Len(channels) |->
        IF channels[i].name \notin DOMAIN fb
        THEN [ type |-> channels[i].type, base |-> "null",
               xSampling |-> channels[i].xSampling,
               ySampling |-> channels[i].ySampling, zero |-> TRUE ]
        ELSE [ type |-> fb[channels[i].name].type,
               base |-> fb[channels[i].name].base,
               xSampling |-> fb[channels[i].name].xSampling,
               ySampling |-> fb[channels[i].name].ySampling, zero |-> FALSE ] ]

(* faulty variant of Unlocked: the mutex is not looked at *)
Unlocked_Always == TRUE

(* the std::lock_guard on Data::_streamData can be constructed *)
Unlocked == mutex = 0

Snapshot(op, n) ==
    [ op |-> op, n |-> n, slices |-> slices, frameBuffer |-> frameBuffer,
      currentScanLine |-> currentScanLine,
      missingScanLines |-> missingScanLines,
      lineOffsets |-> lineOffsets, chunks |-> Len(os.chunks), pos |-> os.pos,
      writes |-> Len(os.writes), currentPosition |-> currentPosition,
      header |-> header ]

(* OutputFile::setFrameBuffer (frameBuffer) *)
setFrameBuffer(fb) ==
    /\ pc = "idle"
    /\ Unlocked
    /\ IF FrameBufferError(fb) # "none"
       THEN /\ g' = [ g EXCEPT !.outcome = FrameBufferError(fb),
                               !.callFailed = FALSE,
                               !.mismatch = "none", !.source = << >>,
                               !.snap = Snapshot("setFrameBuffer", fb) ]
            /\ UNCHANGED << frameBuffer, slices >>
       ELSE /\ frameBuffer' = fb
            /\ slices' = SliceTable(fb)
            /\ g' = [ g EXCEPT !.outcome = "ok", !.callFailed = FALSE,
                               !.mismatch = "none", !.source = << >>,
                               !.snap = Snapshot("setFrameBuffer", fb) ]
    /\ UNCHANGED << config, mutex, t2, header, lineBuffers, currentScanLine,
                    missingScanLines, lineOffsets, os, currentPosition, pc, wp,
                    tasks >>

(* ---------------- OutputFile::writePixels ---------------- *)

(* lines 1032-1034 and 1059-1061 *)
LastBuffer(numScanLines) ==
    CDiv(currentScanLine + Step * (numScanLines - 1) - minY, linesInBuffer)

(* faulty variant of NumTasks: the batch may be one more than the slots *)
NumTasks_OneMore(first, last) ==
    Max(Min(NumSlots + 1, Step * (last - first) + 1), 1)

(* faulty variant of NumTasks: the batch is not limited to the slots *)
NumTasks_Unlimited(first, last) == Max(Step * (last - first) + 1, 1)

(* lines 1039-1041 and 1066-1068 *)
NumTasks(first, last) == Max(Min(NumSlots, Step * (last - first) + 1), 1)

(* lines 986-1083 up to the first task *)
writePixels(numScanLines) ==
    /\ pc = "idle"
    /\ g.calls < MaxCalls
    /\ Unlocked
    /\ IF Len(slices) = 0
       THEN /\ g' = [ g EXCEPT !.calls = @ + 1, !.outcome = "ArgExc",
                               !.callFailed = FALSE,
                               !.mismatch = "none", !.source = << >>,
                               !.snap = Snapshot("writePixels", numScanLines) ]
            /\ UNCHANGED << pc, wp, mutex >>
       ELSE LET first == CDiv(currentScanLine - minY, linesInBuffer)
                last  == LastBuffer(numScanLines)
                numTasks == NumTasks(first, last)
            IN /\ wp' = [ op |-> "writePixels",
                          numScanLines |-> numScanLines,
                          first |-> first,
                          nextWriteBuffer |-> first,
                          nextCompressBuffer |-> first + Step * numTasks,
                          stop |-> last + Step,
                          step |-> Step,
                          scanLineMin |-> IF lineOrder = "INCREASING_Y"
                                          THEN currentScanLine
                                          ELSE currentScanLine - numScanLines + 1,
                          scanLineMax |-> IF lineOrder = "INCREASING_Y"
                                          THEN currentScanLine + numScanLines - 1
                                          ELSE currentScanLine,
                          numTasks |-> numTasks, i |-> 0, exit |-> "none",
                          source |-> << >> ]
               /\ pc' = "submit"
               /\ mutex' = 1
               /\ g' = [ g EXCEPT !.calls = @ + 1, !.outcome = "none",
                                  !.callFailed = FALSE,
                                  !.sumN = @ + numScanLines,
                                  !.valid = @ /\ numScanLines <= missingScanLines,
                                  !.mismatch = "none", !.source = << >>,
                                  !.snap = Snapshot("writePixels", numScanLines) ]
    /\ UNCHANGED << config, t2, header, lineBuffers, frameBuffer, slices,
                    currentScanLine, missingScanLines, lineOffsets, os,
                    currentPosition, tasks >>

(* lines 1043-1051 and 1070-1078: one task of the initial batch *)
AddInitialTask ==
    /\ pc = "submit"
    /\ NewTask(wp.first + wp.step * wp.i, wp.scanLineMin, wp.scanLineMax)
    /\ wp' = [ wp EXCEPT !.i = @ + 1 ]
    /\ pc' = IF wp.i + 1 = wp.numTasks THEN "loop" ELSE "submit"
    /\ UNCHANGED << config, mutex, t2, header, frameBuffer, slices,
                    currentScanLine, missingScanLines, lineOffsets, os,
                    currentPosition, g >>

(* lines 1087-1092: the range check at the head of the loop *)
LoopThrow ==
    /\ pc = "loop"
    /\ missingScanLines <= 0
    /\ wp' = [ wp EXCEPT !.exit = "throw" ]
    /\ pc' = "join"
    /\ UNCHANGED << config, mutex, t2, header, lineBuffers, frameBuffer,
                    slices, currentScanLine, missingScanLines, lineOffsets,
                    os, currentPosition, tasks, g >>

(* lines 1098-1101: writeBuffer->wait() *)
LoopWait ==
    /\ pc = "loop"
    /\ missingScanLines > 0
    /\ LET s == getLineBuffer(wp.nextWriteBuffer) IN
       /\ lineBuffers[s].sem > 0
       /\ lineBuffers' = [ lineBuffers EXCEPT ![s].sem = @ - 1 ]
    /\ pc' = "locked"
    /\ UNCHANGED << config, mutex, t2, header, frameBuffer, slices,
                    currentScanLine, missingScanLines, lineOffsets, os,
                    currentPosition, wp, tasks, g >>

(* faulty variant of NumLines: the span's last scanline is not counted *)
NumLines_OffByOne(lb) == lb.scanLineMax - lb.scanLineMin

(* lines 1103-1104 *)
NumLines(lb) == lb.scanLineMax - lb.scanLineMin + 1

(* line 1127 *)
NextWriteBuffer(nextWriteBuffer, step) == nextWriteBuffer + step

(* lines 1103-1159: the slot is held by the calling thread *)
WriteBuffer ==
    /\ pc = "locked"
    /\ LET s  == getLineBuffer(wp.nextWriteBuffer)
           lb == lineBuffers[s]
           numLines == NumLines(lb)
           next == NextWriteBuffer(wp.nextWriteBuffer, wp.step)
       IN /\ missingScanLines' = missingScanLines - numLines
          /\ IF lb.partiallyFull
             THEN /\ currentScanLine' = currentScanLine + wp.step * numLines
                  /\ lineBuffers' = [ lineBuffers EXCEPT ![s].sem = @ + 1 ]
                  /\ wp' = [ wp EXCEPT !.exit = "return" ]
                  /\ pc' = "join"
                  /\ UNCHANGED << lineOffsets, os, currentPosition >>
             ELSE IF OffsetIndex(currentScanLine) \notin DOMAIN lineOffsets
             THEN \* store outside lineOffsets: undefined behaviour
                  /\ pc' = "crashed"
                  /\ UNCHANGED << currentScanLine, lineBuffers, wp,
                                  lineOffsets, os, currentPosition >>
             ELSE /\ writePixelData(lb.minY, lb.dataSize,
                                    SlotPayload(lb, wp.nextWriteBuffer))
                  /\ currentScanLine' = currentScanLine + wp.step * numLines
                  /\ lineBuffers' = [ lineBuffers EXCEPT ![s].sem = @ + 1 ]
                  /\ wp' = [ wp EXCEPT !.nextWriteBuffer = next,
                                       !.exit = IF next = wp.stop
                                                THEN "break" ELSE "none" ]
                  /\ pc' = IF next = wp.stop THEN "join"
                           ELSE IF wp.nextCompressBuffer = wp.stop THEN "loop"
                           ELSE "addtask"
    /\ UNCHANGED << config, mutex, t2, header, frameBuffer, slices, tasks, g >>

(* lines 1165-1176: the next compression task *)
AddTask ==
    /\ pc = "addtask"
    /\ NewTask(wp.nextCompressBuffer, wp.scanLineMin, wp.scanLineMax)
    /\ wp' = [ wp EXCEPT !.nextCompressBuffer = @ + wp.step ]
    /\ pc' = "loop"
    /\ UNCHANGED << config, mutex, t2, header, frameBuffer, slices,
                    currentScanLine, missingScanLines, lineOffsets, os,
                    currentPosition, g >>

(* lines 1199-1211: some slot holds a stored exception *)
StoredException == \E s \in Slots : lineBuffers[s].hasException

(* ~TaskGroup, then lines 1199-1211 when the loop was left by break *)
Join ==
    /\ pc = "join"
    /\ \A s \in Slots : tasks[s].state = "none"
    /\ IF wp.exit = "break"
       THEN /\ g' = [ g EXCEPT !.outcome = IF StoredException THEN "IoExc" ELSE "ok" ]
            /\ lineBuffers' = [ s \in Slots |->
                                  [ lineBuffers[s] EXCEPT !.hasException = FALSE ] ]
       ELSE /\ g' = [ g EXCEPT !.outcome = IF wp.exit = "throw" THEN "ArgExc"
                                         ELSE IF wp.exit = "fault" THEN "IoExc"
                                         ELSE "ok" ]
            /\ UNCHANGED lineBuffers
    /\ pc' = "idle"
    /\ wp' = NoCall
    /\ mutex' = 0
    /\ UNCHANGED << config, t2, header, frameBuffer, slices, currentScanLine,
                    missingScanLines, lineOffsets, os, currentPosition,
                    tasks >>

(* ---------------- OutputFile::copyPixels ---------------- *)

(* ways the source header can differ from this file's header *)
Mismatches == { "none", "tiles", "dataWindow", "lineOrder", "compression", "channels" }

(* chunk sizes a compatible source file can hold, by chunk number *)
Sources ==
    { in \in [ 0 .. NumChunks - 1 -> 0 .. ChunkBytes(0) ] :
        \A i \in 0 .. NumChunks - 1 : in[i] \in CompressSizes(ChunkBytes(i)) }

(* InputFile::rawPixelData: the source's stored chunk that holds scanLine;
   the source finds it from its own header, whose data window and line
   buffer size are this file's *)
rawPixelData(in, scanLine) ==
    LET number == CDiv(scanLine - minY, linesInBuffer)
    IN [ pixelDataSize |-> in[number],
         pixelData |->
           [ from    |-> "source",
             lines   |-> ChunkMinY(number) .. ChunkMaxY(number),
             spanMin |-> ChunkMinY(number),
             spanMax |-> ChunkMaxY(number),
             number  |-> number,
             failed  |-> FALSE,
             sound   |-> TRUE,
             samples |-> << >>,
             converted |-> << >> ] ]

(* faulty variant of CopyError: a file that holds pixel data is accepted *)
CopyError_NoStateCheck(mismatch) ==
    IF mismatch # "none" THEN "ArgExc" ELSE "none"

(* lines 1247-1328: the header checks, then the "no pixel data yet" check *)
CopyError(mismatch) ==
    IF mismatch # "none" THEN "ArgExc"
    ELSE IF missingScanLines # maxY - minY + 1 THEN "LogicExc"
    ELSE "none"

(* lines 1233-1328: copyPixels (in) up to the copy loop *)
copyPixels(mismatch) ==
    /\ pc = "idle"
    /\ Unlocked
    /\ g.calls < MaxCalls
    /\ LET error == CopyError(mismatch)
       IN \E in \in IF error = "none" THEN Sources ELSE { << >> } :
          /\ g' = [ g EXCEPT !.calls = @ + 1, !.outcome = error,
                             !.callFailed = FALSE,
                             !.copied = @ \/ error = "none",
                             !.mismatch = mismatch,
                             !.source = in,
                             !.snap = Snapshot("copyPixels", 0) ]
          /\ pc' = IF error = "none" THEN "copy" ELSE "idle"
          /\ mutex' = IF error = "none" THEN 1 ELSE mutex
          /\ wp' = IF error = "none"
                   THEN [ NoCall EXCEPT !.op = "copyPixels", !.source = in ]
                   ELSE wp
    /\ UNCHANGED << config, t2, header, lineBuffers, frameBuffer, slices,
                    currentScanLine, missingScanLines, lineOffsets, os,
                    currentPosition, tasks >>

(* faulty variant of CopyStride: the cursor moves by one scanline *)
CopyStride_OneLine == IF lineOrder = "INCREASING_Y" THEN 1 ELSE -1

(* lines 1349-1351: the cursor moves by one whole group *)
CopyStride == IF lineOrder = "INCREASING_Y" THEN linesInBuffer ELSE - linesInBuffer

(* lines 1334-1354: one pass of the copy loop *)
CopyChunk ==
    /\ pc = "copy"
    /\ missingScanLines > 0
    /\ LET raw == rawPixelData(wp.source, currentScanLine)
       IN writePixelData(lineBufferMinY(currentScanLine), raw.pixelDataSize,
                         raw.pixelData)
    /\ currentScanLine' = currentScanLine + CopyStride
    /\ missingScanLines' = missingScanLines - linesInBuffer
    /\ UNCHANGED << config, mutex, t2, header, lineBuffers, frameBuffer,
                    slices, pc, wp, tasks, g >>

(* line 1334: the loop condition fails, copyPixels returns *)
CopyDone ==
    /\ pc = "copy"
    /\ missingScanLines <= 0
    /\ pc' = "idle"
    /\ wp' = NoCall
    /\ g' = [ g EXCEPT !.outcome = "ok" ]
    /\ mutex' = 0
    /\ UNCHANGED << config, t2, header, lineBuffers, frameBuffer, slices,
                    currentScanLine, missingScanLines, lineOffsets, os,
                    currentPosition, tasks >>

(* ---------------- the system ---------------- *)

(* numbers of scanlines a caller passes to writePixels *)
ScanLineCounts == 0 .. Height + 1

Next ==
    \/ Len(slices) = 0 /\ setFrameBuffer(CompleteFrameBuffer)
    \/ \E n \in ScanLineCounts : writePixels(n)
    \/ AddInitialTask
    \/ LoopThrow
    \/ LoopWait
    \/ WriteBuffer
    \/ AddTask
    \/ Join
    \/ \E s \in Slots : TaskExecute(s)
    \/ \E m \in Mismatches : copyPixels(m)
    \/ CopyChunk
    \/ CopyDone

Spec == Init /\ [][Next]_vars

TypeOK ==
    /\ pc \in { "idle", "submit", "loop", "locked", "addtask", "join", "copy", "crashed",
               "closed" }
    /\ \A s \in Slots : lineBuffers[s].sem \in 0 .. 1

(* ---------------- updatePreviewImage, breakScanLine, ~OutputFile -------- *)

(* the stream operation of a call that throws, if any *)
StreamFaults == { "none", "tellp", "seekp", "write", "seekBack" }

(* faulty variant of PreviewRewritten: the stream is left behind the preview *)
PreviewRewritten_NoSeekBack(s, newPixels, fault) ==
    write(seekp(s, previewPosition), "preview", newPixels, PreviewBytes)

(* lines 1398-1404: save the position, rewrite the preview, jump back *)
PreviewRewritten(s, newPixels, fault) ==
    IF fault \in { "tellp", "seekp" } THEN s
    ELSE IF fault = "write" THEN seekp(s, previewPosition)
    ELSE LET written == write(seekp(s, previewPosition), "preview",
                              newPixels, PreviewBytes)
         IN IF fault = "seekBack" THEN written ELSE seekp(written, tellp(s))

(* OutputFile::updatePreviewImage (newPixels) *)
updatePreviewImage(newPixels, fault) ==
    /\ pc = "idle"
    /\ Unlocked
    /\ g.calls < MaxCalls
    /\ IF previewPosition <= 0
       THEN /\ fault = "none"
            /\ g' = [ g EXCEPT !.calls = @ + 1, !.outcome = "LogicExc",
                               !.callFailed = FALSE, !.fault = fault,
                               !.mismatch = "none", !.source = << >>,
                               !.snap = Snapshot("updatePreviewImage", newPixels) ]
            /\ UNCHANGED << header, os >>
       ELSE /\ header' = newPixels
            /\ os' = PreviewRewritten(os, newPixels, fault)
            /\ g' = [ g EXCEPT !.calls = @ + 1,
                               !.outcome = IF fault = "none" THEN "ok" ELSE "IoExc",
                               !.callFailed = FALSE, !.fault = fault,
                               !.faulted = @ \/ fault # "none",
                               !.mismatch = "none", !.source = << >>,
                               !.snap = Snapshot("updatePreviewImage", newPixels) ]
    /\ UNCHANGED << config, mutex, t2, lineBuffers, frameBuffer, slices,
                    currentScanLine, missingScanLines, lineOffsets,
                    currentPosition, pc, wp, tasks >>

(* faulty variant of NotYetStored: every chunk counts as stored *)
NotYetStored_Never(position) == FALSE

(* line 1426: the chunk's offset-table entry is still zero *)
NotYetStored(position) == position = 0

(* the bytes a caller passes to breakScanLine as c *)
FillBytes == { 0, 255 }

(* faulty variant of Patched: the stream is put back where it stood *)
Patched_SeekBack(s, position, offset, length, c) ==
    IF length = 0 THEN s
    ELSE seekp(write(seekp(s, position + offset), "patch", c, length), tellp(s))

(* lines 1437-1440: seekp (position + offset), then length times write (&c, 1) *)
Patched(s, position, offset, length, c) ==
    IF length = 0 THEN seekp(s, position + offset)
    ELSE write(seekp(s, position + offset), "patch", c, length)

(* OutputFile::breakScanLine (y, offset, length, c) *)
breakScanLine(y, offset, length, c) ==
    /\ pc = "idle"
    /\ Unlocked
    /\ g.calls < MaxCalls
    /\ LET position == lineOffsets[CDiv(y - minY, linesInBuffer)] IN
       IF NotYetStored(position)
       THEN /\ g' = [ g EXCEPT !.calls = @ + 1, !.outcome = "ArgExc",
                               !.callFailed = FALSE, !.fault = "none",
                               !.mismatch = "none", !.source = << >>,
                               !.snap = Snapshot("breakScanLine", y) ]
            /\ UNCHANGED << os, currentPosition >>
       ELSE /\ currentPosition' = 0
            /\ os' = Patched(os, position, offset, length, c)
            /\ g' = [ g EXCEPT !.calls = @ + 1, !.outcome = "ok",
                               !.callFailed = FALSE, !.fault = "none",
                               !.mismatch = "none", !.source = << >>,
                               !.snap = Snapshot("breakScanLine", y),
                               !.patch = [ position |-> position,
                                           offset |-> offset,
                                           length |-> length, c |-> c,
                                           chunks |-> Len(os.chunks) ] ]
    /\ UNCHANGED << config, mutex, t2, header, lineBuffers, frameBuffer,
                    slices, currentScanLine, missingScanLines, lineOffsets,
                    pc, wp, tasks >>

(* line 838: seekp (originalPosition) *)
RestorePosition(s, originalPosition) == seekp(s, originalPosition)

(* lines 825-850: the stream after the destructor's try block *)
Finalized(s, table, fault) ==
    IF lineOffsetsPosition > 0
    THEN IF fault = "seekp" THEN s
         ELSE IF fault = "write" THEN seekp(s, lineOffsetsPosition)
         ELSE LET written == writeLineOffsets(seekp(s, lineOffsetsPosition), table)
              IN IF fault = "seekBack" THEN written
                 ELSE RestorePosition(written, tellp(s))
    ELSE s

(* line 825 is outside the try block: an error of tellp() leaves ~OutputFile *)
Escapes(fault) == fault = "tellp"

(* OutputFile::~OutputFile *)
Destroy(fault) ==
    /\ pc = "idle"
    /\ Unlocked
    /\ fault \in StreamFaults
    /\ lineOffsetsPosition = 0 => fault \in { "none", "tellp" }
    /\ IF Escapes(fault)
       THEN /\ pc' = "crashed"
            /\ os' = os
            /\ g' = [ g EXCEPT !.outcome = "terminate", !.fault = fault,
                               !.mismatch = "none", !.source = << >>,
                               !.snap = Snapshot("~OutputFile", 0) ]
       ELSE /\ pc' = "closed"
            /\ os' = Finalized(os, lineOffsets, fault)
            /\ g' = [ g EXCEPT !.outcome = "closed", !.fault = fault,
                               !.mismatch = "none", !.source = << >>,
                               !.snap = Snapshot("~OutputFile", 0) ]
    /\ UNCHANGED << config, mutex, t2, header, lineBuffers, frameBuffer,
                    slices, currentScanLine, missingScanLines, lineOffsets,
                    currentPosition, wp, tasks >>

(* files built by any constructor, with or without a preview image, that
   are written, patched and closed *)
FileInit ==
    /\ initialize(OneChannelHeaders(1 .. FileMaxHeight), { "XDR" }, { 0 })
    /\ \E ctor \in Constructors, hasPreview \in BOOLEAN :
          Constructed(ctor, hasPreview)

FileNext ==
    \/ Next
    \/ \E newPixels \in 1 .. MaxPreview, fault \in StreamFaults :
          updatePreviewImage(newPixels, fault)
    \/ \E y \in minY .. maxY, offset \in 0 .. MaxBreak,
          length \in 0 .. MaxBreak, c \in FillBytes :
          breakScanLine(y, offset, length, c)
    \/ \E fault \in StreamFaults : Destroy(fault)

FileSpec == FileInit /\ [][FileNext]_vars

(* ---------------- observations used by the properties ---------------- *)

StartScanLine == IF lineOrder = "INCREASING_Y" THEN minY ELSE maxY
EndScanLine   == IF lineOrder = "INCREASING_Y" THEN maxY + 1 ELSE minY - 1

(* the k-th chunk of the file in line order, k = 1 .. NumChunks *)
ChunkInOrder(k) == IF lineOrder = "INCREASING_Y" THEN k - 1 ELSE NumChunks - k

(* records appended to the stream since the last call started *)
CallRecords == { k \in 1 .. Len(os.chunks) : k > g.snap.chunks }

InWritePixels ==
    g.snap # << >> /\ g.snap.op = "writePixels" /\ Len(g.snap.slices) > 0

(* no error was raised inside any task so far *)
NoTaskFailure == g.failures = 0

(* only writePixels calls so far, none asking for more than was missing *)
ValidWrites == g.valid /\ ~ g.copied

FromSlot(r) == r.payload.from \in { "buffer", "compressor" }

(* C1: in a writePixels call without task failures, the k-th record the call
   appends is the record of chunk first + (k-1)*step: its header minY is that
   chunk's first scanline and its offset goes to that chunk's table entry, for
   every pool size and every completion order of the tasks. *)
C1_RecordsInChunkOrder ==
    (InWritePixels /\ NoTaskFailure) =>
        \A k \in CallRecords :
            LET number == OffsetIndex(g.snap.currentScanLine)
                          + Step * (k - g.snap.chunks - 1)
            IN /\ os.chunks[k].minY = ChunkMinY(number)
               /\ os.chunks[k].index = number

(* C1 witness: two slots, a record of the call is in the stream, the task of
   the next chunk to write is still pending while the task of the chunk after
   it has already finished. *)
C1_Witness ==
    /\ pc = "loop"
    /\ NoTaskFailure
    /\ NumSlots = 2
    /\ CallRecords # {}
    /\ tasks[getLineBuffer(wp.nextWriteBuffer)].state = "pending"
    /\ LET other == lineBuffers[getLineBuffer(wp.nextWriteBuffer + wp.step)]
       IN /\ tasks[getLineBuffer(wp.nextWriteBuffer + wp.step)].state = "none"
          /\ other.minY = ChunkMinY(wp.nextWriteBuffer + wp.step)
          /\ ~ other.partiallyFull

(* C2: without task failures, over any sequence of writePixels and copyPixels
   calls, no offset-table entry is assigned twice, entries are assigned in
   consecutive chunk order along the line order starting at the first chunk,
   an entry is nonzero exactly when a record was stored under it, and once no
   scanline is missing every entry has been assigned exactly once. *)
C2_OffsetsAssignedOnce ==
    NoTaskFailure =>
        /\ \A j, k \in 1 .. Len(os.chunks) :
              j # k => os.chunks[j].index # os.chunks[k].index
        /\ \A k \in 1 .. Len(os.chunks) : os.chunks[k].index = ChunkInOrder(k)
        /\ \A i \in DOMAIN lineOffsets :
              lineOffsets[i] # 0 <=> \E k \in 1 .. Len(os.chunks) : os.chunks[k].index = i
        /\ (pc = "idle" /\ missingScanLines <= 0) =>
              /\ Len(os.chunks) = NumChunks
              /\ \A i \in DOMAIN lineOffsets : lineOffsets[i] # 0

(* C2 witness: a file of several chunks written completely, bottom to top,
   by more than one call. *)
C2_Witness ==
    /\ pc = "idle"
    /\ NoTaskFailure
    /\ lineOrder = "DECREASING_Y"
    /\ NumChunks >= 2
    /\ missingScanLines = 0
    /\ InWritePixels
    /\ g.snap.chunks > 0
    /\ Len(os.chunks) = NumChunks

(* C3: every record writePixels puts into the stream comes from a slot that
   holds every scanline of its span and that carries no failure record. *)
C3_OnlyCompleteSlotsWritten ==
    \A k \in 1 .. Len(os.chunks) :
        FromSlot(os.chunks[k]) =>
            /\ os.chunks[k].payload.spanMin .. os.chunks[k].payload.spanMax
                  \subseteq os.chunks[k].payload.lines
            /\ ~ os.chunks[k].payload.failed

(* C4: between valid writePixels calls (each n >= 0, running sum at most the
   height, no task failure) missingScanLines is the height minus the running
   sum, so never negative, currentScanLine is the start scanline moved by the
   running sum, and when the sum is the height they are 0 and one past the end. *)
C4_CursorTracksSum ==
    (pc = "idle" /\ NoTaskFailure /\ ValidWrites) =>
        /\ missingScanLines = Height - g.sumN
        /\ missingScanLines >= 0
        /\ currentScanLine = StartScanLine + Step * g.sumN
        /\ g.sumN = Height => (missingScanLines = 0 /\ currentScanLine = EndScanLine)

(* C4 witness: a window whose height is no multiple of linesInBuffer has been
   written completely by calls that ended in the middle of a group. *)
C4_Witness ==
    /\ pc = "idle"
    /\ NoTaskFailure /\ ValidWrites
    /\ linesInBuffer = 2 /\ Height = 3
    /\ g.sumN = Height
    /\ InWritePixels /\ g.snap.n = 1 /\ g.snap.chunks = 1
    /\ g.outcome = "ok"

(* C5: during and after a successful copyPixels missingScanLines is never
   negative, and afterwards it is 0 and the cursor is one past the end. *)
C5_CopyEndsAtZero ==
    (g.snap # << >> /\ g.snap.op = "copyPixels") =>
        /\ pc = "copy" => missingScanLines >= 0
        /\ (pc = "idle" /\ g.outcome = "ok") =>
              (missingScanLines = 0 /\ currentScanLine = EndScanLine)

(* C6: writePixels(n) with n > missingScanLines ends with a range error and
   has written no record, assigned no offset and moved no cursor. *)
C6_RangeErrorBeforeWrites ==
    (pc = "idle" /\ InWritePixels /\ NoTaskFailure /\ ~ g.ub
       /\ g.snap.n > g.snap.missingScanLines) =>
        /\ g.outcome = "ArgExc"
        /\ Len(os.chunks) = g.snap.chunks
        /\ lineOffsets = g.snap.lineOffsets
        /\ currentScanLine = g.snap.currentScanLine
        /\ missingScanLines = g.snap.missingScanLines

(* C7: writePixels(0) with a frame buffer bound completes without error in
   every state of the file and changes neither cursor, offsets nor stream. *)
C7_ZeroLinesIsNoOp ==
    (pc = "idle" /\ InWritePixels /\ NoTaskFailure /\ ValidWrites
       /\ g.snap.n = 0) =>
        /\ g.outcome = "ok"
        /\ Len(os.chunks) = g.snap.chunks
        /\ os.pos = g.snap.pos
        /\ lineOffsets = g.snap.lineOffsets
        /\ currentScanLine = g.snap.currentScanLine
        /\ missingScanLines = g.snap.missingScanLines

(* C8: when valid writePixels calls without task failure have supplied the
   whole window, however it was split into calls, the stream holds exactly
   one record per chunk, in line order, each with its chunk's minY, its
   chunk's scanlines and its chunk's offset-table index: the records of a
   single call for all scanlines. *)
C8_SplitsAssembleAlike ==
    (pc = "idle" /\ NoTaskFailure /\ ValidWrites /\ g.sumN = Height) =>
        /\ Len(os.chunks) = NumChunks
        /\ \A k \in 1 .. Len(os.chunks) :
              /\ os.chunks[k].minY = ChunkMinY(ChunkInOrder(k))
              /\ os.chunks[k].index = ChunkInOrder(k)
              /\ os.chunks[k].payload.lines =
                    ChunkMinY(ChunkInOrder(k)) .. ChunkMaxY(ChunkInOrder(k))
              /\ os.chunks[k].size \in
                    CompressSizes(LineBytes * Cardinality(os.chunks[k].payload.lines))

(* C8 witness: two slots, top to bottom; the first call stopped inside the
   first group and the second call finished that group and the next one. *)
C8_Witness ==
    /\ pc = "idle"
    /\ NoTaskFailure /\ ValidWrites /\ g.sumN = Height
    /\ lineOrder = "INCREASING_Y" /\ NumSlots = 2
    /\ linesInBuffer = 2 /\ Height = 3
    /\ InWritePixels
    /\ g.snap.n = 2 /\ g.snap.currentScanLine = minY + 1 /\ g.snap.chunks = 0
    /\ Len(os.chunks) = 2

(* C9: a writePixels call one of whose tasks recorded a failure ends with an
   I/O error, and then no slot holds a failure record. *)
C9_FailureRaisedBySameCall ==
    (pc = "idle" /\ InWritePixels /\ g.callFailed /\ ~ g.ub) =>
        /\ g.outcome = "IoExc"
        /\ \A s \in Slots : ~ lineBuffers[s].hasException

(* C10: every record in the stream has header minY = minY + i*linesInBuffer
   for the offset-table index i under which its offset is stored, also after
   a task has failed. *)
C10_RecordMatchesIndex ==
    ~ g.ub => \A k \in 1 .. Len(os.chunks) :
                 os.chunks[k].minY = minY + os.chunks[k].index * linesInBuffer

(* C11: an error raised while a task executes stays inside the task: the
   calling thread is not disturbed, the task ends and releases the gate of
   its slot, and the slot ends up holding the error only if it held no
   failure record; a failure record a slot holds is left as it is by every
   step except the calling thread's scan, which alone clears it. *)
C11_ErrorsStayInTask ==
    [][ /\ g'.failures > g.failures =>
             /\ pc' = pc
             /\ \E s \in Slots :
                   /\ tasks[s].state = "pending" /\ tasks'[s].state = "none"
                   /\ lineBuffers'[s].sem = lineBuffers[s].sem + 1
                   /\ lineBuffers'[s].hasException
                   /\ lineBuffers'[s].exception =
                         IF lineBuffers[s].hasException
                         THEN lineBuffers[s].exception ELSE g'.failures
        /\ \A s \in Slots :
              lineBuffers[s].hasException =>
                 /\ lineBuffers'[s].exception = lineBuffers[s].exception
                 /\ ~ lineBuffers'[s].hasException => (pc = "join" /\ pc' = "idle")
      ]_vars

(* C11 witness: a second error was raised in a task of the only slot while
   the slot still held the first one, and the slot holds the first. *)
C11_Witness ==
    /\ NumSlots = 1
    /\ g.failures = 2
    /\ tasks[1].state = "none"
    /\ lineBuffers[1].sem = 1
    /\ lineBuffers[1].hasException
    /\ lineBuffers[1].exception = 1

(* the last call was copyPixels *)
InCopyPixels == g.snap # << >> /\ g.snap.op = "copyPixels"

(* C12: a copyPixels call whose source differs in data window, line order,
   compression or channel list, or whose destination no longer misses every
   scanline of the window, never enters the copy loop: it ends with an error
   and the stream, the cursor, missingScanLines and the offset table are as
   they were before the call.  As long as no task has failed, a destination
   that holds a chunk record misses fewer scanlines than the window has. *)
C12_CopyFailsBeforeWriting ==
    /\ (InCopyPixels /\ (g.mismatch # "none" \/ g.snap.missingScanLines # Height)) =>
          /\ pc = "idle"
          /\ g.outcome \in { "ArgExc", "LogicExc" }
          /\ Len(os.chunks) = g.snap.chunks
          /\ os.pos = g.snap.pos
          /\ currentScanLine = g.snap.currentScanLine
          /\ missingScanLines = g.snap.missingScanLines
          /\ lineOffsets = g.snap.lineOffsets
    /\ (NoTaskFailure /\ Len(os.chunks) > 0) => missingScanLines < Height

(* C12 witness: copyPixels from a compatible source was refused because the
   destination already held a chunk record. *)
C12_Witness ==
    /\ pc = "idle"
    /\ InCopyPixels
    /\ g.mismatch = "none"
    /\ g.snap.chunks > 0
    /\ g.snap.missingScanLines > 0
    /\ g.outcome = "LogicExc"

(* C13: a copyPixels call that returns normally has appended exactly one
   record per chunk of the data window, in the file's line order; the k-th
   of them has the first scanline of the k-th chunk as header minY, the
   source's raw bytes and byte count of that chunk as payload and payload
   length, and its offset in that chunk's entry of the offset table; while
   the copy runs no task exists and no record comes from a slot. *)
C13_CopyWritesSourceChunks ==
    /\ (InCopyPixels /\ pc = "copy") => \A s \in Slots : tasks[s].state = "none"
    /\ (InCopyPixels /\ pc = "idle" /\ g.outcome = "ok") =>
          /\ Len(os.chunks) = g.snap.chunks + NumChunks
          /\ \A k \in 1 .. NumChunks :
                LET r == os.chunks[g.snap.chunks + k]
                    c == ChunkInOrder(k)
                    raw == rawPixelData(g.source, ChunkMinY(c))
                IN /\ r.minY = ChunkMinY(c)
                   /\ r.index = c
                   /\ r.payload = raw.pixelData
                   /\ r.size = raw.pixelDataSize
                   /\ lineOffsets[c] = r.offset

(* C13 witness: a bottom-to-top file of two chunks, the last one short, was
   copied from a source whose two chunks have different sizes. *)
C13_Witness ==
    /\ InCopyPixels /\ pc = "idle" /\ g.outcome = "ok"
    /\ lineOrder = "DECREASING_Y"
    /\ Height = 3 /\ linesInBuffer = 2
    /\ Len(os.chunks) = 2
    /\ os.chunks[1].size # os.chunks[2].size

(* C14: for every chunk record in the stream, the offset stored for it in
   the offset table is the stream position at which the record's first byte
   was written, whatever position the stream had when the file was
   constructed and whatever updatePreviewImage and breakScanLine calls came
   before the write. *)
C14_OffsetIsTruePosition ==
    \A k \in 1 .. Len(os.chunks) : os.chunks[k].offset = os.chunks[k].pos

(* C15: over any sequence of writePixels calls without task failure, the
   k-th record written belongs to the k-th chunk in line order (entry 0 first
   for IncreasingY, the highest entry first for DecreasingY), offsets stored
   for records written later are strictly larger, and every step that writes
   a record leaves the cursor one scanline past that chunk's span in the
   direction of the line order. *)
C15_OffsetsIncrease ==
    /\ [] ((NoTaskFailure /\ ~ g.copied /\ ~ g.ub) =>
             /\ \A k \in 1 .. Len(os.chunks) : os.chunks[k].index = ChunkInOrder(k)
             /\ \A j, k \in 1 .. Len(os.chunks) :
                   j < k => lineOffsets[os.chunks[j].index]
                              < lineOffsets[os.chunks[k].index])
    /\ [][ (NoTaskFailure /\ ~ g.copied /\ ~ g.ub
              /\ Len(os'.chunks) = Len(os.chunks) + 1) =>
             LET c == ChunkInOrder(Len(os'.chunks))
             IN currentScanLine' = IF lineOrder = "INCREASING_Y"
                                   THEN ChunkMaxY(c) + 1 ELSE ChunkMinY(c) - 1
         ]_vars

(* C15 witness: a bottom-to-top file of two chunks written completely; the
   highest entry holds the smallest offset. *)
C15_Witness ==
    /\ pc = "idle" /\ NoTaskFailure /\ ~ g.copied
    /\ lineOrder = "DECREASING_Y"
    /\ NumChunks = 2 /\ Len(os.chunks) = 2
    /\ lineOffsets[1] > 0
    /\ lineOffsets[1] < lineOffsets[0]
    /\ currentScanLine = minY - 1

(* C16: every chunk record consists of a 4-byte part index exactly when the
   file is multi-part, then a 4-byte minY, a 4-byte payload length and that
   many payload bytes, and the stream moves by exactly these bytes; right
   after a record is written the cached position is the position the record
   was taken to start at plus 8 plus the payload length, plus 4 for a
   multi-part file. *)
C16_RecordLayout ==
    /\ [] (\A k \in 1 .. Len(os.chunks) :
             LET r == os.chunks[k] IN
             /\ r.layout =
                  (IF multiPart
                   THEN << [ field |-> "partNumber", bytes |-> 4 ] >> ELSE << >>)
                  \o << [ field |-> "lineBufferMinY", bytes |-> 4 ],
                        [ field |-> "pixelDataSize", bytes |-> 4 ],
                        [ field |-> "pixelData", bytes |-> r.size ] >>
             /\ multiPart => r.part = partNumber)
    /\ [][ Len(os'.chunks) = Len(os.chunks) + 1 =>
             LET r == os'.chunks[Len(os'.chunks)] IN
             /\ os'.pos = os.pos + 8 + r.size + (IF multiPart THEN 4 ELSE 0)
             /\ r.pos = os.pos
             /\ currentPosition' =
                   r.offset + 8 + r.size + (IF multiPart THEN 4 ELSE 0)
         ]_vars

(* C16 witness: a part of a multi-part file holds two records, the second
   written with the cached position. *)
C16_Witness ==
    /\ multiPart
    /\ Len(os.chunks) = 2
    /\ os.chunks[1].size > 0
    /\ os.chunks[2].offset = os.chunks[1].offset + 12 + os.chunks[1].size
    /\ currentPosition = os.chunks[2].offset + 12 + os.chunks[2].size

(* the bytes of the reserved offset table *)
TableEnd == lineOffsetsPosition + XdrOffsetSize * NumChunks

(* C17: when ~OutputFile runs with a nonzero offset-table position on a
   file none of whose stream operations has failed, the last thing written
   is the in-memory offset table, as it then is, at the reserved position,
   the stream stands where it stood before, and no chunk record of the
   stream lies in the bytes the table was written to. *)
C17_FinalizationWritesTable ==
    (pc = "closed" /\ g.fault = "none" /\ ~ g.faulted
       /\ lineOffsetsPosition # 0) =>
        /\ Len(os.writes) = g.snap.writes + 1
        /\ os.writes[Len(os.writes)] =
              [ pos |-> lineOffsetsPosition, what |-> "lineOffsets",
                value |-> lineOffsets, bytes |-> XdrOffsetSize * NumChunks ]
        /\ os.pos = g.snap.pos
        /\ Len(os.chunks) = g.snap.chunks
        /\ \A k \in 1 .. Len(os.chunks) :
              \/ os.chunks[k].pos >= TableEnd
              \/ os.chunks[k].pos + LayoutBytes(os.chunks[k].layout)
                    <= lineOffsetsPosition

(* C18: whichever stream operation of ~OutputFile fails (reading the
   position, seeking to the table, writing it, seeking back), the error
   stays inside the destructor and the destructor completes. *)
C18_FinalizationSwallowsFaults ==
    (g.snap # << >> /\ g.snap.op = "~OutputFile") =>
        /\ pc = "closed"
        /\ g.outcome = "closed"

(* C19: breakScanLine for a scanline whose chunk's offset-table entry is
   zero fails, and stream contents, stream position, cached position, offset
   table and cursor are what they were before the call. *)
C19_BreakUnwrittenFails ==
    (g.snap # << >> /\ g.snap.op = "breakScanLine"
       /\ g.snap.lineOffsets[CDiv(g.snap.n - minY, linesInBuffer)] = 0) =>
        /\ g.outcome = "ArgExc"
        /\ os.pos = g.snap.pos
        /\ Len(os.writes) = g.snap.writes
        /\ Len(os.chunks) = g.snap.chunks
        /\ currentPosition = g.snap.currentPosition
        /\ lineOffsets = g.snap.lineOffsets
        /\ currentScanLine = g.snap.currentScanLine
        /\ missingScanLines = g.snap.missingScanLines

(* C19 witness: the file holds one of its two chunks and breakScanLine was
   called for a scanline of the other. *)
C19_Witness ==
    /\ g.snap # << >> /\ g.snap.op = "breakScanLine"
    /\ NumChunks = 2 /\ Len(os.chunks) = 1
    /\ g.snap.lineOffsets[CDiv(g.snap.n - minY, linesInBuffer)] = 0
    /\ g.outcome = "ArgExc"
    /\ currentPosition # 0

(* C20: updatePreviewImage on a file without recorded preview position fails
   and changes neither the preview in memory nor the stream; when it returns
   normally, the one thing written is the new preview value at the recorded
   position and the stream stands where it stood, as does the cached
   position; cursor, missingScanLines and offset table are unchanged either
   way. *)
C20_PreviewUpdate ==
    (g.snap # << >> /\ g.snap.op = "updatePreviewImage") =>
        /\ previewPosition = 0 =>
              /\ g.outcome = "LogicExc"
              /\ header = g.snap.header
              /\ os.pos = g.snap.pos
              /\ Len(os.writes) = g.snap.writes
              /\ Len(os.chunks) = g.snap.chunks
        /\ g.outcome = "ok" =>
              /\ previewPosition # 0
              /\ header = g.snap.n
              /\ Len(os.writes) = g.snap.writes + 1
              /\ os.writes[Len(os.writes)] =
                    [ pos |-> previewPosition, what |-> "preview",
                      value |-> g.snap.n, bytes |-> PreviewBytes ]
              /\ os.pos = g.snap.pos
              /\ Len(os.chunks) = g.snap.chunks
        /\ g.outcome \in { "ok", "LogicExc" } =>
              /\ currentPosition = g.snap.currentPosition
              /\ currentScanLine = g.snap.currentScanLine
              /\ missingScanLines = g.snap.missingScanLines
              /\ lineOffsets = g.snap.lineOffsets

(* C20 witness: the preview of a file that holds a chunk record was
   replaced a second time, by a different image. *)
C20_Witness ==
    /\ g.snap # << >> /\ g.snap.op = "updatePreviewImage"
    /\ g.outcome = "ok"
    /\ Len(os.chunks) >= 1
    /\ g.snap.header > 0 /\ g.snap.header # header
    /\ os.pos = g.snap.pos
    /\ currentPosition # 0

(* ---------------- files with several, subsampled channels ---------------- *)

Channel(name, type, xSampling, ySampling) ==
    [ name |-> name, type |-> type, xSampling |-> xSampling,
      ySampling |-> ySampling ]

ChannelLists ==
    { << HalfChannel >>,
      << HalfChannel, Channel("B", "FLOAT", 2, 2) >>,
      << Channel("A", "FLOAT", 1, 2), Channel("B", "HALF", 2, 1) >> }

(* Header::sanityCheck: the data window starts at, and spans, multiples of
   every channel's sampling rates *)
sanityCheck(h) ==
    \A i \in 1 .. Len(h.channels) :
        /\ h.minX % h.channels[i].xSampling = 0
        /\ h.minY % h.channels[i].ySampling = 0
        /\ (h.maxX - h.minX + 1) % h.channels[i].xSampling = 0
        /\ (h.maxY - h.minY + 1) % h.channels[i].ySampling = 0

(* headers whose data window starts at negative coordinates *)
PixelHeaders ==
    { h \in [ minY : { PixelMin }, maxY : { PixelMin + PixelHeight - 1 },
              minX : { PixelMin }, maxX : { PixelMin + PixelWidth - 1 },
              channels : ChannelLists ] : sanityCheck(h) }

(* slices a caller may bind to a channel: as declared, or with another
   pixel type or another sampling rate *)
SlicesFor(c) ==
    { Slice(c.type, c.xSampling, c.ySampling, c.name),
      Slice(IF c.type = "HALF" THEN "FLOAT" ELSE "HALF",
            c.xSampling, c.ySampling, c.name),
      Slice(c.type, 3 - c.xSampling, c.ySampling, c.name),
      Slice(c.type, c.xSampling, 3 - c.ySampling, c.name) }

(* frame buffers over the header's channel names *)
FrameBuffers ==
    UNION { { fb \in [ names -> UNION { SlicesFor(channels[i]) :
                                         i \in 1 .. Len(channels) } ] :
                \A i \in 1 .. Len(channels) :
                    channels[i].name \in names =>
                        fb[channels[i].name] \in SlicesFor(channels[i]) } :
            names \in SUBSET ChannelNames }

PixelInit ==
    /\ initialize(PixelHeaders, { "XDR", "NATIVE" }, { 0 })
    /\ Constructed("fileName", FALSE)

(* the frame buffers setFrameBuffer accepts *)
CompatibleFrameBuffers == { fb \in FrameBuffers : FrameBufferError(fb) = "none" }

(* files that are bound once, to any frame buffer the header accepts, and
   then written *)
PixelNext ==
    \/ Next
    \/ /\ pc = "idle" /\ Len(slices) = 0
       /\ \E fb \in CompatibleFrameBuffers : setFrameBuffer(fb)

PixelSpec == PixelInit /\ [][PixelNext]_vars

(* files that are bound again and again, to any frame buffer *)
FrameNext == pc = "idle" /\ \E fb \in FrameBuffers : setFrameBuffer(fb)

FrameSpec == PixelInit /\ [][FrameNext]_vars

(* C21: a setFrameBuffer call whose frame buffer binds a channel of the
   header with another pixel type or another x or y sampling rate fails and
   leaves the stored frame buffer and the slice table as they were; a call
   that succeeds stores the frame buffer and a slice table with one entry
   per channel of the header, in the header's order, with the channel's type
   and sampling rates, and with zero set exactly for the channels the frame
   buffer does not bind. *)
C21_SetFrameBuffer ==
    (g.snap # << >> /\ g.snap.op = "setFrameBuffer") =>
        LET fb == g.snap.n IN
        /\ g.outcome \in { "ok", "ArgExc" }
        /\ (\E i \in 1 .. Len(channels) :
              /\ channels[i].name \in DOMAIN fb
              /\ \/ fb[channels[i].name].type # channels[i].type
                 \/ fb[channels[i].name].xSampling # channels[i].xSampling
                 \/ fb[channels[i].name].ySampling # channels[i].ySampling)
             => g.outcome = "ArgExc"
        /\ g.outcome = "ArgExc" =>
              /\ frameBuffer = g.snap.frameBuffer
              /\ slices = g.snap.slices
        /\ g.outcome = "ok" =>
              /\ frameBuffer = fb
              /\ Len(slices) = Len(channels)
              /\ \A i \in 1 .. Len(channels) :
                    /\ slices[i].type = channels[i].type
                    /\ slices[i].xSampling = channels[i].xSampling
                    /\ slices[i].ySampling = channels[i].ySampling
                    /\ slices[i].zero <=> channels[i].name \notin DOMAIN fb
                    /\ ~ slices[i].zero => slices[i].base = fb[channels[i].name].base

(* C21 witness: with the second of two channels unbound, a frame buffer
   that binds it with the wrong sampling rate was refused, and the slice
   table still has the second channel zero-filled. *)
C21_Witness ==
    /\ g.snap # << >> /\ g.snap.op = "setFrameBuffer"
    /\ g.outcome = "ArgExc"
    /\ Len(channels) = 2
    /\ DOMAIN g.snap.n = { "A", "B" }
    /\ g.snap.n["B"].type = channels[2].type
    /\ Len(slices) = 2
    /\ ~ slices[1].zero /\ slices[2].zero
    /\ DOMAIN frameBuffer = { "A" }

(* ---------------- a second thread on the same stream ---------------- *)

(* the OutputFile thread 2 writes pixels to: the sibling part of the same
   multi-part file, or a second OutputFile on the caller's stream *)
SiblingPart == partNumber + 1

(* the operation of thread 2 locks the OutputStreamMutex this file locks:
   setFrameBuffer is called on this file; the sibling part has part->mutex
   (line 740), while a second OutputFile constructed on the caller's stream
   has an OutputStreamMutex of its own (line 684) *)
SharesMutex(op) == op = "setFrameBuffer" \/ multiPart

(* thread 2 calls an operation: the std::lock_guard on its file's
   OutputStreamMutex is constructed *)
T2Lock(op, arg) ==
    /\ t2.pc = "idle"
    /\ pc # "crashed"
    /\ op = "writePixels" => t2.records < MaxSiblingRecords
    /\ SharesMutex(op) => Unlocked
    /\ mutex' = IF SharesMutex(op) THEN 2 ELSE mutex
    /\ t2' = [ t2 EXCEPT !.pc = op, !.arg = arg ]
    /\ UNCHANGED << config, header, lineBuffers, frameBuffer, slices,
                    currentScanLine, missingScanLines, lineOffsets, os,
                    currentPosition, pc, wp, tasks, g >>

(* the lock_guard of thread 2 is destroyed *)
T2Unlock(op) == mutex' = IF SharesMutex(op) THEN 0 ELSE mutex

(* thread 2 in setFrameBuffer of this file, lines 886-975 *)
T2SetFrameBuffer ==
    /\ t2.pc = "setFrameBuffer"
    /\ IF FrameBufferError(t2.arg) # "none"
       THEN UNCHANGED << frameBuffer, slices >>
       ELSE /\ frameBuffer' = t2.arg
            /\ slices' = SliceTable(t2.arg)
    /\ T2Unlock(t2.pc)
    /\ t2' = [ NoThread EXCEPT !.records = t2.records ]
    /\ UNCHANGED << config, header, lineBuffers, currentScanLine,
                    missingScanLines, lineOffsets, os, currentPosition, pc, wp,
                    tasks, g >>

(* thread 2 in writePixels of the other OutputFile: writePixelData, lines
   241-274, one Xdr write after the other; t2.arg is the payload's size.
   A sibling part uses the currentPosition of the shared OutputStreamMutex,
   a second OutputFile the one of its own, cached by its constructor. *)
T2WritePixelData ==
    /\ t2.pc = "writePixels"
    /\ LET layout == RecordLayout(t2.arg) IN
       IF t2.fields = 0
       THEN \* lines 241-244
            /\ t2' = [ t2 EXCEPT !.position = IF multiPart THEN WritePosition
                                               ELSE StreamStart,
                                 !.fields = 1,
                                 !.start = tellp(os) ]
            /\ currentPosition' = IF multiPart THEN 0 ELSE currentPosition
            /\ UNCHANGED << os, mutex >>
       ELSE IF t2.fields <= Len(layout)
       THEN \* lines 256-269
            /\ os' = [ os EXCEPT !.pos = @ + layout[t2.fields].bytes ]
            /\ t2' = [ t2 EXCEPT !.fields = @ + 1 ]
            /\ UNCHANGED << currentPosition, mutex >>
       ELSE \* lines 271-274, then the call returns
            /\ os' = [ os EXCEPT !.chunks = Append(@,
                         [ pos |-> t2.start, offset |-> t2.position,
                           index |-> -1, part |-> SiblingPart, minY |-> minY,
                           size |-> t2.arg, layout |-> layout,
                           payload |-> << >> ]) ]
            /\ currentPosition' = IF multiPart
                                  THEN NextPosition(t2.position, t2.arg)
                                  ELSE currentPosition
            /\ T2Unlock(t2.pc)
            /\ t2' = [ NoThread EXCEPT !.records = t2.records + 1 ]
    /\ UNCHANGED << config, header, lineBuffers, frameBuffer, slices,
                    currentScanLine, missingScanLines, lineOffsets, pc, wp,
                    tasks, g >>

(* a part of a multi-part file, or a file on a caller's stream, with a
   second thread that binds frame buffers to it and writes chunks of
   another OutputFile on the same stream *)
SharedInit ==
    /\ initialize(OneChannelHeaders({ FileMaxHeight }), { "XDR" }, { 0 })
    /\ \E ctor \in { "part", "stream" } : Constructed(ctor, TRUE)
    /\ multiPart \/ (lineOrder = "INCREASING_Y" /\ linesInBuffer = 1)

SharedNext ==
    \/ Len(slices) = 0 /\ setFrameBuffer(CompleteFrameBuffer)
    \/ \E n \in 1 .. FileMaxHeight : writePixels(n)
    \/ AddInitialTask
    \/ LoopThrow
    \/ LoopWait
    \/ WriteBuffer
    \/ AddTask
    \/ Join
    \/ \E s \in Slots : TaskExecute(s)
    \/ copyPixels("none")
    \/ CopyChunk
    \/ CopyDone
    \/ updatePreviewImage(1, "none")
    \/ breakScanLine(minY, 0, 1, 0)
    \/ Destroy("none")
    \/ T2Lock("setFrameBuffer", << >>)
    \/ T2Lock("writePixels", LineBytes)
    \/ T2SetFrameBuffer
    \/ T2WritePixelData

SharedSpec == SharedInit /\ [][SharedNext]_vars

(* thread 1 is inside writePixels or copyPixels *)
Running1 == pc \in { "submit", "loop", "locked", "addtask", "join", "copy" }

(* thread 2 is inside an operation *)
Running2 == t2.pc # "idle"

(* thread 2 is inside an operation that locks this file's mutex *)
Running2Shared == Running2 /\ SharesMutex(t2.pc)

(* C22 as stated: the operations of all OutputFile instances on one stream
   exclude one another: the two threads are never inside an operation at
   the same time, every step of thread 1's operations and of their tasks is
   taken while thread 2 is in none, and every step of thread 2 inside an
   operation while thread 1 is in none.  Violated by a second OutputFile
   constructed on the same caller's stream, whose mutex is its own. *)
C22_AllInstancesExclude ==
    /\ [] ~ (Running1 /\ Running2)
    /\ [][ /\ t2' = t2 => ~ Running2
           /\ (t2' # t2 /\ Running2) => ~ Running1
         ]_vars

(* C22, amended: the operations of one OutputFile and of the parts of one
   multi-part file, which lock one OutputStreamMutex, exclude one another:
   thread 1 and a thread inside an operation on that mutex are never
   running at the same time and whoever is inside owns the mutex; every
   step of thread 1's operations and of their tasks (writePixels,
   copyPixels, setFrameBuffer, updatePreviewImage, breakScanLine,
   ~OutputFile) is taken while thread 2 is in no such operation, so no
   record is written while a record of the sibling part is half written,
   and every step of thread 2 inside such an operation is taken while
   thread 1 is in none; from the first task of a writePixels call to its
   return the slice table and the frame buffer do not change. *)
C22_OperationsExclude ==
    /\ [] ( /\ ~ (Running1 /\ Running2Shared)
            /\ Running1 => mutex = 1
            /\ Running2Shared => mutex = 2 )
    /\ [][ /\ t2' = t2 => ~ Running2Shared
           /\ (t2' # t2 /\ Running2Shared) => ~ Running1
           /\ Running1 => (slices' = slices /\ frameBuffer' = frameBuffer)
         ]_vars

(* C22 witness: thread 1 holds the mutex and a slot inside writePixels of a
   part; before the call thread 2 has written a record of the sibling part
   behind this part's first record and has bound an empty frame buffer. *)
C22_Witness ==
    /\ multiPart
    /\ pc = "locked" /\ mutex = 1
    /\ t2.pc = "idle" /\ t2.records = 1
    /\ Len(slices) = 1 /\ slices[1].zero
    /\ Len(os.chunks) = 2
    /\ os.chunks[1].part = partNumber
    /\ os.chunks[2].part = SiblingPart

(* ---------------- a stream that fails inside writePixelData ---------------- *)

(* line 1126 with a stream whose write throws at the k-th field of the
   record: lines 241-251 have run, the fields before the k-th are in the
   stream, lines 271-274 and lines 1127-1146 are skipped, the TaskGroup is
   destroyed and the exception leaves writePixels through line 1213 *)
WriteBufferFails ==
    /\ pc = "locked"
    /\ LET s  == getLineBuffer(wp.nextWriteBuffer)
           lb == lineBuffers[s]
           layout == RecordLayout(lb.dataSize)
       IN /\ ~ lb.partiallyFull
          /\ OffsetIndex(currentScanLine) \in DOMAIN lineOffsets
          /\ missingScanLines' = missingScanLines - NumLines(lb)
          /\ lineOffsets' = [ lineOffsets EXCEPT
                                ![OffsetIndex(currentScanLine)] = WritePosition ]
          /\ currentPosition' = 0
          /\ \E k \in 1 .. Len(layout) :
                os' = [ os EXCEPT
                          !.pos = @ + LayoutBytes(SubSeq(layout, 1, k - 1)) ]
    /\ wp' = [ wp EXCEPT !.exit = "fault" ]
    /\ pc' = "join"
    /\ g' = [ g EXCEPT !.fault = "write", !.faulted = TRUE ]
    /\ UNCHANGED << config, mutex, t2, header, lineBuffers, frameBuffer,
                    slices, currentScanLine, tasks >>

FaultInit ==
    /\ initialize(OneChannelHeaders(1 .. FileMaxHeight), { "XDR" },
                  0 .. MaxThreads)
    /\ Constructed("fileName", FALSE)

FaultNext ==
    \/ Len(slices) = 0 /\ setFrameBuffer(CompleteFrameBuffer)
    \/ \E n \in ScanLineCounts : writePixels(n)
    \/ AddInitialTask
    \/ LoopThrow
    \/ LoopWait
    \/ WriteBuffer
    \/ WriteBufferFails
    \/ AddTask
    \/ Join
    \/ \E s \in Slots : TaskExecute(s)

FaultSpec == FaultInit /\ [][FaultNext]_vars

(* C23: whenever no writePixels call is running, whatever way the last one
   ended, every slot's gate is free.  Violated when the stream's write
   throws inside writePixelData: the calling thread's wait() of line 1101
   is not followed by the post() of line 1146. *)
C23_GatesFreeAfterCall ==
    pc = "idle" => \A s \in Slots : lineBuffers[s].sem = 1

(* the running writePixels(n) call was made with 0 <= n <= missingScanLines
   and missingScanLines > 0 *)
CallInRange ==
    /\ InWritePixels
    /\ g.snap.missingScanLines > 0
    /\ g.snap.n <= g.snap.missingScanLines

(* ---------------- termination of writePixels ---------------- *)

(* files of MaxHeight scanlines written with a pool of one thread *)
LiveInit ==
    /\ initialize(OneChannelHeaders({ MaxHeight }), { "XDR" }, { 1 })
    /\ Constructed("fileName", FALSE)

LiveNext ==
    \/ Len(slices) = 0 /\ setFrameBuffer(CompleteFrameBuffer)
    \/ \E n \in ScanLineCounts : writePixels(n)
    \/ AddInitialTask
    \/ LoopThrow
    \/ LoopWait
    \/ WriteBuffer
    \/ AddTask
    \/ Join
    \/ \E s \in Slots : TaskExecute(s)

(* the calling thread takes its next step when it can, and the pool
   executes every task it was given *)
LiveSpec ==
    /\ LiveInit
    /\ [][LiveNext]_vars
    /\ WF_vars(AddInitialTask)
    /\ WF_vars(LoopThrow)
    /\ WF_vars(LoopWait)
    /\ WF_vars(WriteBuffer)
    /\ WF_vars(AddTask)
    /\ WF_vars(Join)
    /\ \A s \in 1 .. NumLineBuffers(1) : WF_vars(TaskExecute(s))

(* C24: a writePixels(n) call with a frame buffer bound, 0 <= n <=
   missingScanLines and missingScanLines > 0 returns or raises. *)
C24_WritePixelsTerminates ==
    (pc = "submit" /\ CallInRange) ~> (pc = "idle")

(* ---------------- slots and outstanding chunks ---------------- *)

(* the chunks that hold a scanline of the range the running call asked for *)
GroupsInRange ==
    { k \in 0 .. NumChunks - 1 :
        \E y \in ChunkMinY(k) .. ChunkMaxY(k) :
            wp.scanLineMin <= y /\ y <= wp.scanLineMax }

(* the chunk of the scanline the cursor was on when the call began *)
CursorGroup == (g.snap.currentScanLine - minY) \div linesInBuffer

(* chunks handed to tasks and not yet written or returned by the caller *)
Outstanding ==
    IF pc = "submit" THEN wp.i
    ELSE IF pc \in { "loop", "locked", "addtask" }
    THEN Step * (wp.nextCompressBuffer - wp.nextWriteBuffer)
    ELSE 0

(* C25: the file has max(1, 2 * numThreads) slots; the initial batch of a
   writePixels(n) call with 0 <= n <= missingScanLines on a file that still
   misses scanlines has max(1, min(slots,
   chunks in the requested range)) tasks, the i-th of them for the i-th
   chunk from the cursor's chunk in line order; and the chunks handed to
   tasks and not yet written or returned, among them every pending task,
   are never more than the slots. *)
C25_SlotsBoundBatch ==
    /\ [] (NumSlots = Max(1, 2 * numThreads))
    /\ [] ((CallInRange /\ pc \in { "submit", "loop", "locked", "addtask" })
           => /\ wp.numTasks = Max(1, Min(NumSlots, Cardinality(GroupsInRange)))
              /\ Outstanding <= NumSlots
              /\ Cardinality({ s \in Slots : tasks[s].state = "pending" })
                    <= Outstanding )
    /\ [][ (CallInRange /\ pc = "submit" /\ wp'.i = wp.i + 1)
           => LET s == getLineBuffer(CursorGroup + Step * wp.i)
              IN /\ tasks[s].state = "none"
                 /\ tasks'[s] = [ state  |-> "pending",
                                  number |-> CursorGroup + Step * wp.i ]
         ]_vars

(* C25 witness: a pool of one thread, two slots; the call asked for three
   chunks, its batch was two tasks, and both slots are outstanding while
   the third chunk waits for the first to be written. *)
C25_Witness ==
    /\ CallInRange
    /\ numThreads = 1 /\ NumSlots = 2
    /\ pc = "loop"
    /\ Cardinality(GroupsInRange) = 3
    /\ wp.numTasks = 2
    /\ Outstanding = 2

(* ---------------- the slots' semaphores ---------------- *)

(* the calling thread is between wait() and post() on slot s *)
CallerHolds(s) == pc = "locked" /\ s = getLineBuffer(wp.nextWriteBuffer)

(* a LineBufferTask for slot s is between its constructor and destructor *)
TaskHolds(s) == tasks[s].state = "pending"

(* what a slot holds besides its semaphore and its failure record *)
SlotFields(lb) ==
    << lb.minY, lb.maxY, lb.scanLineMin, lb.scanLineMax, lb.partiallyFull,
       lb.endOfLineBufferData, lb.dataPtr, lb.dataSize, lb.gathered,
       lb.samples, lb.converted, lb.sound >>

(* C26: a slot's semaphore counts 0 or 1; it counts 0 exactly when one
   party, a task or the calling thread and never both, is between its
   wait() and its post() on the slot; the slot's span, contents,
   partiallyFull and data view change only in steps of the task that holds
   the semaphore, and the calling thread writes a record from a slot only
   while it holds the slot's semaphore and no task does. *)
C26_OneHolderPerSlot ==
    /\ [] \A s \in Slots :
            /\ lineBuffers[s].sem \in 0 .. 1
            /\ ~ (CallerHolds(s) /\ TaskHolds(s))
            /\ pc # "crashed" =>
                  (lineBuffers[s].sem = 0 <=> (CallerHolds(s) \/ TaskHolds(s)))
    /\ [][ /\ \A s \in Slots :
                SlotFields(lineBuffers'[s]) # SlotFields(lineBuffers[s])
                => /\ TaskHolds(s) \/ TaskHolds(s)'
                   /\ ~ CallerHolds(s)
           /\ (pc \notin { "copy", "idle" }
               /\ Len(os'.chunks) > Len(os.chunks))
              => LET s == getLineBuffer(wp.nextWriteBuffer)
                 IN /\ CallerHolds(s)
                    /\ lineBuffers[s].sem = 0
                    /\ lineBuffers'[s].sem = 1
                    /\ ~ TaskHolds(s)
         ]_vars

(* C26 witness: of two slots the calling thread holds the one it is about
   to write while the task of the next chunk holds the other. *)
C26_Witness ==
    /\ NumSlots = 2
    /\ \E s \in Slots :
          /\ CallerHolds(s)
          /\ \E u \in Slots \ {s} : TaskHolds(u) /\ lineBuffers[u].sem = 0
          /\ lineBuffers[s].sem = 0

(* ---------------- a call that ends inside a chunk ---------------- *)

(* the chunk of the scanline the cursor is on *)
CursorChunk == (currentScanLine - minY) \div linesInBuffer

(* the first scanline of chunk `number` in line order *)
ChunkFirstY(number) ==
    IF lineOrder = "INCREASING_Y" THEN ChunkMinY(number) ELSE ChunkMaxY(number)

(* the cursor is on a scanline of the window that is not the first of its
   chunk in line order: the last call ended inside that chunk *)
CursorInsideChunk ==
    /\ minY <= currentScanLine /\ currentScanLine <= maxY
    /\ currentScanLine # ChunkFirstY(CursorChunk)

(* the scanlines of chunk `number` that come before the cursor in line order *)
SuppliedOf(number) ==
    { y \in ChunkMinY(number) .. ChunkMaxY(number) :
        Step * (y - currentScanLine) < 0 }

(* C27: without task failures and with every call within the missing
   scanlines, when a writePixels call has ended inside a chunk: no record
   of that chunk is in the stream and its offset-table entry is zero; the
   cursor and missingScanLines have moved by the number of scanlines the
   call supplied; the chunk's slot has the chunk's span, holds exactly the
   scanlines supplied so far and is partiallyFull.  A task that is bound to
   a partiallyFull slot is the task of the chunk whose span the slot has,
   and leaves span and gathered contents as they are. *)
C27_PartialChunkKept ==
    /\ [] ((pc = "idle" /\ InWritePixels /\ NoTaskFailure /\ ValidWrites
            /\ CursorInsideChunk)
           => LET k  == CursorChunk
                  lb == lineBuffers[getLineBuffer(k)]
              IN /\ \A r \in DOMAIN os.chunks :
                       os.chunks[r].index # k /\ os.chunks[r].minY # ChunkMinY(k)
                 /\ lineOffsets[k] = 0
                 /\ currentScanLine = g.snap.currentScanLine + Step * g.snap.n
                 /\ missingScanLines = g.snap.missingScanLines - g.snap.n
                 /\ lb.partiallyFull
                 /\ lb.minY = ChunkMinY(k) /\ lb.maxY = ChunkMaxY(k)
                 /\ lb.gathered = SuppliedOf(k))
    /\ [][ (NoTaskFailure /\ ValidWrites)
           => \A s \in Slots :
                 (tasks[s].state = "none" /\ tasks'[s].state = "pending"
                  /\ lineBuffers[s].partiallyFull)
                 => /\ lineBuffers[s].minY = ChunkMinY(tasks'[s].number)
                    /\ lineBuffers'[s].minY = lineBuffers[s].minY
                    /\ lineBuffers'[s].maxY = lineBuffers[s].maxY
                    /\ lineBuffers'[s].gathered = lineBuffers[s].gathered
                    /\ lineBuffers'[s].endOfLineBufferData
                          = lineBuffers[s].endOfLineBufferData
                    /\ lineBuffers'[s].partiallyFull
         ]_vars

(* C27 witness: chunks of two scanlines; a call supplied the first scanline
   of a chunk and returned, and the task of the next call is bound to the
   slot, which still holds that scanline. *)
C27_Witness ==
    /\ NoTaskFailure /\ ValidWrites
    /\ linesInBuffer = 2
    /\ g.calls >= 2
    /\ \E s \in Slots :
          /\ tasks[s].state = "pending"
          /\ lineBuffers[s].partiallyFull
          /\ lineBuffers[s].gathered = { ChunkFirstY(tasks[s].number) }
          /\ lineOffsets[tasks[s].number] = 0

(* ---------------- the span a task finds in its slot ---------------- *)

(* C28: a live task of chunk `number` has a slot whose span is the span of
   that chunk.  Violated after a task failure: the slot stays partiallyFull
   with the failed chunk's span while the cursor moves on, and the next
   task on the slot, for another chunk, does not initialize it. *)
C28_TaskSpanIsChunkSpan ==
    \A s \in Slots :
        tasks[s].state = "pending"
        => /\ lineBuffers[s].minY = ChunkMinY(tasks[s].number)
           /\ lineBuffers[s].maxY = ChunkMaxY(tasks[s].number)

(* ---------------- the payload of a completed chunk ---------------- *)

(* the byte ranges of the samples a slot gathered for the scanlines
   y .. last, in scanline order *)
RECURSIVE GatheredRanges(_, _, _)
GatheredRanges(samples, y, last) ==
    IF y > last THEN << >>
    ELSE (IF y \in DOMAIN samples
          THEN [ i \in 1 .. Len(samples[y]) |->
                   [ slice |-> samples[y][i].slice, at |-> samples[y][i].at,
                     bytes |-> samples[y][i].bytes ] ]
          ELSE << >>)
         \o GatheredRanges(samples, y + 1, last)

(* C29: without task failures and with calls within the missing scanlines,
   the payload of a record written from a slot is the compressor's output
   exactly when the compressor returned fewer bytes than were assembled;
   otherwise it is the slot's buffer with the assembled length, and then,
   when the format is NATIVE, convertToXdr has converted exactly the byte
   ranges of the samples that were gathered, and nothing when the format
   is XDR; compressor output is never converted. *)
C29_PayloadOfChunk ==
    (NoTaskFailure /\ ValidWrites) =>
        \A k \in DOMAIN os.chunks :
            LET r   == os.chunks[k]
                raw == ChunkBytes(r.index)
                p   == r.payload
            IN /\ p.from \in { "buffer", "compressor" }
               /\ p.from = "compressor" <=> r.size < raw
               /\ p.from = "compressor" => p.converted = << >>
               /\ p.from = "buffer" =>
                     /\ r.size = raw
                     /\ p.converted =
                           IF format = "NATIVE"
                           THEN GatheredRanges(p.samples, p.spanMin, p.spanMax)
                           ELSE << >>

(* C29 witness: a NATIVE file with two channels; a chunk did not shrink,
   its record carries the buffer with the assembled length, and the samples
   of both channels were converted. *)
C29_Witness ==
    /\ NoTaskFailure /\ ValidWrites
    /\ format = "NATIVE"
    /\ Len(channels) = 2
    /\ \E k \in DOMAIN os.chunks :
          /\ os.chunks[k].payload.from = "buffer"
          /\ os.chunks[k].size = ChunkBytes(os.chunks[k].index)
          /\ { os.chunks[k].payload.converted[i].slice :
                 i \in DOMAIN os.chunks[k].payload.converted } = { 1, 2 }

(* ---------------- the samples of a gathered scanline ---------------- *)

(* bytes of the entries of a stored scanline before the i-th *)
RECURSIVE BytesBefore(_, _)
BytesBefore(line, i) ==
    IF i <= 1 THEN 0 ELSE line[i - 1].bytes + BytesBefore(line, i - 1)

(* C30: for every scanline y a slot has gathered, the slices that stored
   samples are those with y mod ySampling = 0, in slice order; each stored
   floor(maxX / xSampling) - floor(minX / xSampling) + 1 samples of its
   type, zeroes for a slice without a frame-buffer entry, one behind the
   other from the scanline's offset in the slot, which is the sum of the
   byte sizes of the chunk's earlier scanlines; the bytes stored for y are
   bytesPerLine of y.  Without task failures and with calls within the
   missing scanlines, a completed slot holds the sum of bytesPerLine over
   its chunk's span, in however many calls the scanlines were supplied. *)
C30_SamplesOfScanline ==
    /\ \A s \in Slots :
          LET lb == lineBuffers[s] IN
          \A y \in DOMAIN lb.samples :
             LET line == lb.samples[y] IN
             /\ { line[i].slice : i \in DOMAIN line }
                   = { i \in 1 .. Len(slices) : y % slices[i].ySampling = 0 }
             /\ \A i \in DOMAIN line :
                   LET sl == slices[line[i].slice] IN
                   /\ i > 1 => line[i].slice > line[i - 1].slice
                   /\ line[i].count = (maxX \div sl.xSampling)
                                      - (minX \div sl.xSampling) + 1
                   /\ line[i].bytes = line[i].count
                                      * (IF sl.type = "HALF" THEN 2 ELSE 4)
                   /\ line[i].from = IF sl.zero THEN "zeroes" ELSE sl.base
                   /\ line[i].at = SumLines(lineBufferMinY(y), y - 1)
                                   + BytesBefore(line, i)
             /\ SumBytes(line) = bytesPerLine(y)
    /\ (NoTaskFailure /\ ValidWrites) =>
          \A s \in Slots :
             LET lb == lineBuffers[s] IN
             (~ lb.partiallyFull /\ lb.gathered # {})
             => /\ lb.gathered = lb.minY .. lb.maxY
                /\ lb.endOfLineBufferData = SumLines(lb.minY, lb.maxY)

(* C30 witness: a chunk of two scanlines supplied in two calls; the second
   channel, sampled every second scanline, has samples on one of them only,
   a channel without a frame-buffer entry was filled with zeroes, and the
   completed slot holds the bytes of both scanlines. *)
C30_Witness ==
    /\ NoTaskFailure /\ ValidWrites
    /\ InWritePixels /\ g.snap.n = 1
    /\ linesInBuffer = 2
    /\ \E s \in Slots :
          LET lb == lineBuffers[s] IN
          /\ ~ lb.partiallyFull
          /\ lb.gathered = { minY, minY + 1 }
          /\ Len(lb.samples[minY]) = 2
          /\ Len(lb.samples[minY + 1]) = 1
          /\ \E i \in 1 .. 2 : lb.samples[minY][i].from = "zeroes"
          /\ lb.endOfLineBufferData = SumLines(minY, minY + 1)
          /\ lb.endOfLineBufferData > 0

(* ---------------- slots are used in chunk order ---------------- *)

(* the chunk whose span slot lb has *)
ChunkOf(lb) == (lb.minY - minY) \div linesInBuffer

(* the scanlines of chunk `number` the running call asked for *)
AskedOf(number) ==
    { y \in ChunkMinY(number) .. ChunkMaxY(number) :
        wp.scanLineMin <= y /\ y <= wp.scanLineMax }

(* a record of chunk `number` is in the stream *)
Written(number) ==
    \E r \in DOMAIN os.chunks :
        os.chunks[r].index = number /\ os.chunks[r].minY = ChunkMinY(number)

(* C31: without task failures and with calls within the missing scanlines,
   a slot is used by one chunk after the other.  While the calling thread
   holds the slot of the chunk it is about to write or inspect, no task
   holds it, the slot has that chunk's span and the task of that chunk has
   gathered the scanlines the call asked for.  A task is created on a slot
   that is free; if the slot is partly assembled the task is the one of the
   slot's chunk, and if the slot holds an assembled chunk that chunk's
   record is in the stream and the task is the one of the chunk one slot
   count further in line order; only a call made when no scanline is missing
   creates the task of the written chunk itself once more. *)
C31_SlotsAlternate ==
    /\ [] ((NoTaskFailure /\ ValidWrites /\ pc = "locked")
           => LET k  == wp.nextWriteBuffer
                  s  == getLineBuffer(k)
                  lb == lineBuffers[s]
              IN /\ tasks[s].state = "none"
                 /\ lb.minY = ChunkMinY(k) /\ lb.maxY = ChunkMaxY(k)
                 /\ AskedOf(k) \subseteq lb.gathered
                 /\ ~ lb.partiallyFull => lb.gathered = lb.minY .. lb.maxY)
    /\ [][ (NoTaskFailure /\ ValidWrites)
           => \A s \in Slots :
                 (tasks[s].state = "none" /\ tasks'[s].state = "pending")
                 => LET lb == lineBuffers[s]
                        k  == tasks'[s].number
                    IN /\ lb.sem = 1
                       /\ ~ CallerHolds(s)
                       /\ lb.partiallyFull => k = ChunkOf(lb)
                       /\ (~ lb.partiallyFull /\ lb.gathered # {})
                          => /\ Written(ChunkOf(lb))
                             /\ k # ChunkOf(lb)
                                => k = ChunkOf(lb) + Step * NumSlots
                             /\ CallInRange => k # ChunkOf(lb)
         ]_vars

(* C31 witness: two slots, increasing order; the record of chunk 0 is in
   the stream and the task of chunk 2 holds the slot chunk 0 was assembled
   in, while chunk 1 is still to be written. *)
C31_Witness ==
    /\ NoTaskFailure /\ ValidWrites
    /\ NumSlots = 2 /\ lineOrder = "INCREASING_Y"
    /\ Written(0) /\ ~ Written(1)
    /\ tasks[getLineBuffer(2)].state = "pending"
    /\ tasks[getLineBuffer(2)].number = 2
    /\ wp.nextWriteBuffer = 1

(* ---------------- breakScanLine and the record after it ---------------- *)

(* the last call was a breakScanLine that returned normally *)
BrokeScanLine ==
    /\ g.snap # << >> /\ g.snap.op = "breakScanLine"
    /\ g.outcome = "ok"

(* where the stream stands after the bytes of the last breakScanLine *)
PatchEnd == g.patch.position + g.patch.offset + g.patch.length

(* C32: after a breakScanLine (y, offset, length, c) that returned normally,
   the stream holds length bytes c written from the recorded offset of y's
   chunk plus offset and stands behind them, the cached write position is
   unknown, and offset table, cursor, missingScanLines and chunk records
   are what they were before the call.  The first chunk record written
   after it, by writePixels or by copyPixels, with no stream operation
   having failed, starts where the stream was left, and the offset-table
   entry of its chunk records that position. *)
C32_BreakLeavesStreamBehindPatch ==
    /\ [] (BrokeScanLine
           => LET recorded ==
                    g.snap.lineOffsets[CDiv(g.snap.n - minY, linesInBuffer)]
              IN /\ recorded # 0
                 /\ g.patch.position = recorded
                 /\ os.pos = recorded + g.patch.offset + g.patch.length
                 /\ currentPosition = 0
                 /\ lineOffsets = g.snap.lineOffsets
                 /\ currentScanLine = g.snap.currentScanLine
                 /\ missingScanLines = g.snap.missingScanLines
                 /\ Len(os.chunks) = g.snap.chunks
                 /\ g.patch.length = 0 => Len(os.writes) = g.snap.writes
                 /\ g.patch.length > 0
                    => /\ Len(os.writes) = g.snap.writes + 1
                       /\ os.writes[Len(os.writes)] =
                             [ pos |-> recorded + g.patch.offset,
                               what |-> "patch", value |-> g.patch.c,
                               bytes |-> g.patch.length ])
    /\ [][ ( /\ g.patch # << >>
             /\ ~ g.faulted
             /\ Len(os.chunks) = g.patch.chunks
             /\ Len(os'.chunks) = Len(os.chunks) + 1 )
           => LET r == os'.chunks[Len(os'.chunks)]
              IN /\ pc \in { "locked", "copy" }
                 /\ r.pos = PatchEnd
                 /\ r.offset = PatchEnd
                 /\ lineOffsets'[r.index] = PatchEnd
         ]_vars

(* C32 witness: a file of two chunks; the first chunk was patched one byte
   behind its recorded offset, and the record of the second chunk has been
   written since and starts behind the patched byte. *)
C32_Witness ==
    /\ g.patch # << >> /\ ~ g.faulted
    /\ g.patch.offset = 1 /\ g.patch.length = 1
    /\ Len(os.chunks) = g.patch.chunks + 1
    /\ os.chunks[Len(os.chunks)].pos = PatchEnd
    /\ lineOffsets[os.chunks[Len(os.chunks)].index] = PatchEnd
    /\ \E w \in DOMAIN os.writes :
          os.writes[w] = [ pos |-> g.patch.position + 1, what |-> "patch",
                           value |-> g.patch.c, bytes |-> 1 ]

====
